---- MODULE Spec2Model ----
(***************************************************************************)
(* Orchestration core of the multi-agent research assistant:               *)
(* backend/manager.py (domain gate, intent routing, prompt parsing, the    *)
(* quick-answer path and the full-report path), together with the parts of *)
(* backend/news_researcher.py, backend/financial_analyst.py,               *)
(* backend/schemas.py and backend/api.py that the workflow runs through.   *)
(*                                                                         *)
(* Python strings are TLA+ strings; Len, \o, SubSeq, Head and Tail work on *)
(* them character by character.  Python's None is the record NoneV.        *)
(***************************************************************************)
EXTENDS Integers, Sequences, FiniteSets, TLC

VARIABLES
    pc,             \* position of the request in api.chat / run_manager_workflow
    env,            \* which credentials the process environment holds
    llm,            \* the text provider handed to the workflow ("llm" or "none")
    message,        \* competitor_prompt / req.message
    classification, \* result of classify_domain
    intent,         \* result of detect_intent
    parsed,         \* the ManagerParsedPrompt
    state,          \* the ManagerState
    qi,             \* _serper_report_sources: index of the next query
    fetched,        \* sources the task being built has collected so far
    output,         \* task.output of the task kicked off last
    nr,             \* local nr of run_manager_workflow
    firstOut,       \* history: task.output of the first news kickoff
    firstNr,        \* history: nr before the completeness check
    events,         \* history: provider calls, gate decision and kickoffs, in order
    fin,            \* locals of _fetch_financials
    ret,            \* what the request ended with
    pin,            \* input of the pure function under check
    pout            \* its result

vars == <<pc, env, llm, message, classification, intent, parsed, state, qi,
          fetched, output, nr, firstOut, firstNr, events, fin, ret, pin, pout>>

(***************************************************************************)
(* Python values                                                           *)
(***************************************************************************)
NoneV == [isNone |-> TRUE]

IsNone(v) == v = NoneV

(***************************************************************************)
(* str methods                                                             *)
(***************************************************************************)
Char(s, i) == SubSeq(s, i, i)

UpperAlpha == "ABCDEFGHIJKLMNOPQRSTUVWXYZ"

LowerAlpha == "abcdefghijklmnopqrstuvwxyz"

Digits == "0123456789"

CharsOf(s) == {Char(s, i) : i \in 1..Len(s)}

WhiteSpace == {" ", "\t", "\n", "\r", "\f"}

LowerChar(c) ==
    IF c \in CharsOf(UpperAlpha)
    THEN Char(LowerAlpha, CHOOSE i \in 1..26 : Char(UpperAlpha, i) = c)
    ELSE c

UpperChar(c) ==
    IF c \in CharsOf(LowerAlpha)
    THEN Char(UpperAlpha, CHOOSE i \in 1..26 : Char(LowerAlpha, i) = c)
    ELSE c

RECURSIVE Lower(_)
Lower(s) ==
    IF Len(s) <= 1 THEN LowerChar(s)
    ELSE LET half == Len(s) \div 2 IN
         Lower(SubSeq(s, 1, half)) \o Lower(SubSeq(s, half + 1, Len(s)))

RECURSIVE Upper(_)
Upper(s) ==
    IF Len(s) <= 1 THEN UpperChar(s)
    ELSE LET half == Len(s) \div 2 IN
         Upper(SubSeq(s, 1, half)) \o Upper(SubSeq(s, half + 1, Len(s)))

RECURSIVE LStrip(_)
LStrip(s) == IF s # "" /\ Head(s) \in WhiteSpace THEN LStrip(Tail(s)) ELSE s

RECURSIVE RStrip(_)
RStrip(s) ==
    IF s # "" /\ Char(s, Len(s)) \in WhiteSpace
    THEN RStrip(SubSeq(s, 1, Len(s) - 1))
    ELSE s

Strip(s) == RStrip(LStrip(s))

\* sub in s
Contains(s, sub) ==
    \E i \in 1..(Len(s) - Len(sub) + 1) : SubSeq(s, i, i + Len(sub) - 1) = sub

StartsWith(s, p) == Len(p) <= Len(s) /\ SubSeq(s, 1, Len(p)) = p

(***************************************************************************)
(* re: a pattern is a tree; Ends(re, s, P) is the set of positions of s    *)
(* (1..Len(s)+1) at which a match of re can end when it starts at a        *)
(* position of P.  This is all that a yes/no re.match needs.               *)
(***************************************************************************)
Lit(t) == [k |-> "lit", t |-> t]

Cls(cs) == [k |-> "cls", cs |-> cs, neg |-> FALSE]

NotCls(cs) == [k |-> "cls", cs |-> cs, neg |-> TRUE]

Cat(rs) == [k |-> "cat", rs |-> rs]

Star(r) == [k |-> "star", r |-> r]

Plus(r) == Cat(<<r, Star(r)>>)

Opt(r) == [k |-> "opt", r |-> r]

Alt(rs) == [k |-> "alt", rs |-> rs]

\* "$" without re.MULTILINE: at the end, or just before a final newline
Eos == [k |-> "eos"]

\* \s
Ws == Cls(WhiteSpace)

\* "." without re.DOTALL
Dot == NotCls({"\n"})

RECURSIVE Ends(_, _, _)
RECURSIVE EndsCat(_, _, _, _)
RECURSIVE EndsStar(_, _, _)
Ends(re, s, P) ==
    CASE re.k = "lit" ->
           {p + Len(re.t) : p \in {q \in P : /\ q + Len(re.t) - 1 <= Len(s)
                                              /\ SubSeq(s, q, q + Len(re.t) - 1) = re.t}}
      [] re.k = "cls" ->
           {p + 1 : p \in {q \in P : /\ q <= Len(s)
                                     /\ (Char(s, q) \in re.cs) = ~re.neg}}
      [] re.k = "cat" -> EndsCat(re.rs, 1, s, P)
      [] re.k = "star" -> EndsStar(re.r, s, P)
      [] re.k = "opt" -> P \cup Ends(re.r, s, P)
      [] re.k = "alt" -> UNION {Ends(re.rs[i], s, P) : i \in 1..Len(re.rs)}
      [] re.k = "eos" ->
           {p \in P : \/ p = Len(s) + 1
                      \/ (p = Len(s) /\ Char(s, p) = "\n")}

EndsCat(rs, i, s, P) ==
    IF i > Len(rs) \/ P = {} THEN P ELSE EndsCat(rs, i + 1, s, Ends(rs[i], s, P))

EndsStar(r, s, P) ==
    IF r.k = "cls"
    THEN \* a run of characters of the class: every position up to the first
         \* character outside it
         LET outside == {k \in 1..Len(s) : (Char(s, k) \in r.cs) = r.neg} IN
         {q \in 1..(Len(s) + 1) :
             \E p \in P : p <= q /\ \A k \in outside : k < p \/ k >= q}
    ELSE LET Q == P \cup Ends(r, s, P) IN IF Q = P THEN P ELSE EndsStar(r, s, Q)

\* re.match(pattern, s) is not None
ReMatch(re, s) == Ends(re, s, {1}) # {}

(***************************************************************************)
(* manager.py: intent classifier                                           *)
(***************************************************************************)
\* ^\s*<words separated by \s+>\s+.+<tail>\??\s*$
QuickPatternMarked(head, tail) ==
    Cat(<<Star(Ws)>>
        \o head
        \o <<Plus(Dot)>>
        \o tail
        \o <<Lit("?"), Star(Ws), Eos>>)

QuickPattern(head, tail) ==
    Cat(<<Star(Ws)>>
        \o head
        \o <<Plus(Dot)>>
        \o tail
        \o <<Opt(Lit("?")), Star(Ws), Eos>>)

_QUICK_ANSWER_PATTERNS ==
    << QuickPattern(<<Lit("who"), Plus(Ws), Lit("is"), Plus(Ws)>>, <<>>),
       QuickPattern(<<Lit("who"), Plus(Ws), Lit("are"), Plus(Ws)>>, <<>>),
       QuickPattern(<<Lit("who"), Plus(Ws), Lit("founded"), Plus(Ws)>>, <<>>),
       QuickPattern(<<Lit("who"), Plus(Ws), Lit("owns"), Plus(Ws)>>, <<>>),
       QuickPattern(<<Lit("what"), Plus(Ws), Lit("is"), Plus(Ws)>>, <<>>),
       QuickPattern(<<Lit("what"), Plus(Ws), Lit("does"), Plus(Ws)>>,
                    <<Plus(Ws), Lit("do")>>),
       QuickPattern(<<Lit("what"), Plus(Ws), Lit("does"), Plus(Ws)>>,
                    <<Plus(Ws), Lit("make")>>),
       QuickPattern(<<Lit("where"), Plus(Ws), Lit("is"), Plus(Ws)>>,
                    <<Plus(Ws), Alt(<<Lit("headquartered"), Lit("based")>>)>>),
       QuickPattern(<<Lit("when"), Plus(Ws), Lit("was"), Plus(Ws)>>,
                    <<Plus(Ws), Lit("founded")>>),
       QuickPattern(<<Lit("how"), Plus(Ws), Lit("many"), Plus(Ws), Lit("employees"),
                      Plus(Ws), Lit("does"), Plus(Ws)>>,
                    <<Plus(Ws), Lit("have")>>),
       QuickPattern(<<Lit("how"), Plus(Ws), Lit("much"), Plus(Ws), Lit("is"), Plus(Ws)>>,
                    <<Plus(Ws), Lit("worth")>>) >>

_FULL_REPORT_KEYWORDS ==
    <<"research", "competitor", "analysis", "analyze", "market report", "swot",
      "pricing analysis", "write a memo", "memo", "report">>

lookup_terms ==
    <<"ceo", "founder", "founded", "headquartered", "headquarters", "hq", "ticker",
      "employees", "net worth", "market cap", "revenue">>

question_starts == <<"who ", "where ", "when ", "what ", "how many ", "how much ">>

\* the length below which (inclusive) the lookup heuristic applies
IntentMaxLen == 140

HasFullReportKeyword(msg) ==
    \E i \in 1..Len(_FULL_REPORT_KEYWORDS) : Contains(msg, _FULL_REPORT_KEYWORDS[i])

MatchesQuickPattern(msg) ==
    \E i \in 1..Len(_QUICK_ANSWER_PATTERNS) : ReMatch(_QUICK_ANSWER_PATTERNS[i], msg)

LookupHeuristicStrict(msg) ==
    /\ Len(msg) < IntentMaxLen
    /\ \E i \in 1..Len(lookup_terms) : Contains(msg, lookup_terms[i])
    /\ \/ Contains(msg, "?")
       \/ \E i \in 1..Len(question_starts) : StartsWith(msg, question_starts[i])

LookupHeuristic(msg) ==
    /\ Len(msg) <= IntentMaxLen
    /\ \E i \in 1..Len(lookup_terms) : Contains(msg, lookup_terms[i])
    /\ \/ Contains(msg, "?")
       \/ \E i \in 1..Len(question_starts) : StartsWith(msg, question_starts[i])

detect_intent_patterns_first(user_message) ==
    LET msg == Lower(Strip(user_message)) IN
    IF MatchesQuickPattern(msg) THEN "quick_answer"
    ELSE IF HasFullReportKeyword(msg) THEN "full_report"
    ELSE IF LookupHeuristic(msg) THEN "quick_answer"
    ELSE "full_report"

detect_intent(user_message) ==
    LET msg == Lower(Strip(user_message)) IN
    IF HasFullReportKeyword(msg) THEN "full_report"
    ELSE IF MatchesQuickPattern(msg) THEN "quick_answer"
    ELSE IF LookupHeuristic(msg) THEN "quick_answer"
    ELSE "full_report"

(***************************************************************************)
(* Values of json.loads, and texts.  A text is the record of its           *)
(* characters s and of what json.loads makes of it (NotJson when it        *)
(* raises); the texts of the model are the ones listed below.              *)
(***************************************************************************)
JStr(x) == [t |-> "str", s |-> x]

JNum(n) == [t |-> "num", n |-> n]

JNull == [t |-> "null"]

JList(l) == [t |-> "list", l |-> l]

JDict(d) == [t |-> "dict", d |-> d]

NotJson == [t |-> "invalid"]

Text(chars, loaded) == [s |-> chars, json |-> loaded]

IsText(v) == "s" \in DOMAIN v

\* data.get(key) of a dict
DictGet(data, key) == IF key \in DOMAIN data.d THEN data.d[key] ELSE JNull

\* hash(v) raises TypeError
Unhashable(v) == v.t \in {"list", "dict"}

\* an exception leaving a function
Raised(type, msg) == [exc |-> type, msg |-> msg]

IsRaised(v) == "exc" \in DOMAIN v

(***************************************************************************)
(* manager.py: domain gate                                                 *)
(***************************************************************************)
allowed_domains == {"in_domain", "out_of_domain"}

allowed_categories ==
    {"company_research", "financial_metric", "stock_market", "executive_lookup",
     "business_question", "life_advice", "recipe", "health", "other"}

Classification(d, c, r) == [domain |-> d, category |-> c, reason |-> r]

\* what llm.call did: it raised, or it returned a value (a text, or not a str)
CallRaised == [call |-> "raised"]

CallReturned(v) == [call |-> "returned", value |-> v]

\* lines 248-272, once json.loads has returned data
classify_loaded(data) ==
    IF data.t # "dict" THEN Raised("AttributeError", "no attribute get")
    ELSE
      LET domain == DictGet(data, "domain")
          category == DictGet(data, "category")
          reason == DictGet(data, "reason")
      IN  IF Unhashable(domain) \/ Unhashable(category)
          THEN Raised("TypeError", "unhashable type")
          ELSE Classification(
                 IF domain.t = "str" /\ domain.s \in allowed_domains
                 THEN domain.s ELSE "out_of_domain",
                 IF category.t = "str" /\ category.s \in allowed_categories
                 THEN category.s ELSE "other",
                 IF reason.t = "str" /\ Strip(reason.s) # ""
                 THEN reason.s ELSE "unspecified")

classify_domain_open(user_message, l, reply) ==
    IF l = "none"
    THEN Classification("in_domain", "business_question", "llm_missing")
    ELSE IF reply.call = "raised"
    THEN Classification("in_domain", "business_question", "llm_call_failed")
    ELSE IF ~IsText(reply.value) \/ Strip(reply.value.s) = ""
    THEN Classification("out_of_domain", "other", "empty_llm_output")
    ELSE IF reply.value.json = NotJson
    THEN Classification("in_domain", "business_question", "invalid_json")
    ELSE classify_loaded(reply.value.json)

classify_domain_closed(user_message, l, reply) ==
    IF l = "none"
    THEN Classification("in_domain", "business_question", "llm_missing")
    ELSE IF reply.call = "raised"
    THEN Classification("out_of_domain", "other", "llm_call_failed")
    ELSE IF ~IsText(reply.value) \/ Strip(reply.value.s) = ""
    THEN Classification("out_of_domain", "other", "empty_llm_output")
    ELSE IF reply.value.json = NotJson
    THEN Classification("out_of_domain", "other", "invalid_json")
    ELSE classify_loaded(reply.value.json)

\* classify_domain(user_message, llm), reply being what llm.call does when called
classify_domain(user_message, l, reply) ==
    IF l = "none"
    THEN Classification("in_domain", "business_question", "llm_missing")
    ELSE IF reply.call = "raised"
    THEN Classification("in_domain", "business_question", "llm_call_failed")
    ELSE IF ~IsText(reply.value) \/ Strip(reply.value.s) = ""
    THEN Classification("out_of_domain", "other", "empty_llm_output")
    ELSE IF reply.value.json = NotJson
    THEN Classification("out_of_domain", "other", "invalid_json")
    ELSE classify_loaded(reply.value.json)

classify_domain_calls_always(l) == TRUE

\* whether classify_domain calls llm.call
classify_domain_calls(l) == l # "none"

(***************************************************************************)
(* schemas.py: pydantic validation of a json.loads value against a model.  *)
(* A validation yields Ok(object) or Bad (ValidationError).  Optional      *)
(* fields hold NoneV or Some(value).  Keys the model does not declare are  *)
(* ignored; a str field takes a JSON string only.                          *)
(***************************************************************************)
Ok(v) == [ok |-> TRUE, v |-> v]

Bad == [ok |-> FALSE]

Some(x) == [some |-> x]

Has(j, key) == key \in DOMAIN j.d

\* x: str = Field(...)
ReqStr(j, key) ==
    IF Has(j, key) /\ j.d[key].t = "str" THEN Ok(j.d[key].s) ELSE Bad

\* x: str = Field(default)
DefStr(j, key, default) ==
    IF ~Has(j, key) THEN Ok(default) ELSE ReqStr(j, key)

\* x: Optional[str] = None
OptStr(j, key) ==
    IF ~Has(j, key) \/ j.d[key].t = "null" THEN Ok(NoneV)
    ELSE IF j.d[key].t = "str" THEN Ok(Some(j.d[key].s)) ELSE Bad

\* x: Optional[float] = None
OptNum(j, key) ==
    IF ~Has(j, key) \/ j.d[key].t = "null" THEN Ok(NoneV)
    ELSE IF j.d[key].t = "num" THEN Ok(Some(j.d[key].n)) ELSE Bad

\* a List[str] value
StrListOf(v) ==
    IF v.t = "list" /\ \A i \in 1..Len(v.l) : v.l[i].t = "str"
    THEN Ok([i \in 1..Len(v.l) |-> v.l[i].s])
    ELSE Bad

\* x: List[str] (required)
ReqStrList(j, key) == IF Has(j, key) THEN StrListOf(j.d[key]) ELSE Bad

\* x: List[str] = Field(default_factory=list)
DefStrList(j, key) == IF Has(j, key) THEN StrListOf(j.d[key]) ELSE Ok(<<>>)

AllOk(rs) == \A i \in 1..Len(rs) : rs[i].ok

validate_Source(j) ==
    IF j.t # "dict" THEN Bad
    ELSE LET title == ReqStr(j, "title")
             url == ReqStr(j, "url")
             snippet == OptStr(j, "snippet")
             published_date == OptStr(j, "published_date")
         IN  IF AllOk(<<title, url, snippet, published_date>>)
             THEN Ok([title |-> title.v, url |-> url.v, snippet |-> snippet.v,
                      published_date |-> published_date.v])
             ELSE Bad

\* sources: List[Source] = Field(default_factory=list)
DefSources(j) ==
    IF ~Has(j, "sources") THEN Ok(<<>>)
    ELSE LET v == j.d["sources"] IN
         IF v.t = "list" /\ \A i \in 1..Len(v.l) : validate_Source(v.l[i]).ok
         THEN Ok([i \in 1..Len(v.l) |-> validate_Source(v.l[i]).v])
         ELSE Bad

validate_CompanyOverview(j) ==
    IF j.t # "dict" THEN Bad
    ELSE LET description == ReqStr(j, "description")
             founded == DefStr(j, "founded", "unknown")
             hq_location == DefStr(j, "hq_location", "unknown")
             employees == DefStr(j, "employees", "unknown")
             executives == DefStrList(j, "executives")
         IN  IF AllOk(<<description, founded, hq_location, employees, executives>>)
             THEN Ok([description |-> description.v, founded |-> founded.v,
                      hq_location |-> hq_location.v, employees |-> employees.v,
                      executives |-> executives.v])
             ELSE Bad

validate_RecentDevelopments(j) ==
    IF j.t # "dict" THEN Bad
    ELSE LET product_news == DefStrList(j, "product_news")
             partnerships_and_deals == DefStrList(j, "partnerships_and_deals")
             org_changes == DefStrList(j, "org_changes")
         IN  IF AllOk(<<product_news, partnerships_and_deals, org_changes>>)
             THEN Ok([product_news |-> product_news.v,
                      partnerships_and_deals |-> partnerships_and_deals.v,
                      org_changes |-> org_changes.v])
             ELSE Bad

validate_ProductsPricing(j) ==
    IF j.t # "dict" THEN Bad
    ELSE LET core_products == DefStrList(j, "core_products")
             pricing_model == DefStr(j, "pricing_model", "unknown")
             competitive_differentiation == DefStrList(j, "competitive_differentiation")
         IN  IF AllOk(<<core_products, pricing_model, competitive_differentiation>>)
             THEN Ok([core_products |-> core_products.v,
                      pricing_model |-> pricing_model.v,
                      competitive_differentiation |-> competitive_differentiation.v])
             ELSE Bad

validate_NewsResearchResult(j) ==
    IF j.t # "dict" THEN Bad
    ELSE LET company_overview ==
                 IF Has(j, "company_overview")
                 THEN validate_CompanyOverview(j.d["company_overview"]) ELSE Bad
             recent_developments ==
                 IF Has(j, "recent_developments")
                 THEN validate_RecentDevelopments(j.d["recent_developments"]) ELSE Bad
             products_pricing ==
                 IF Has(j, "products_pricing")
                 THEN validate_ProductsPricing(j.d["products_pricing"]) ELSE Bad
             sources == DefSources(j)
         IN  IF AllOk(<<company_overview, recent_developments, products_pricing, sources>>)
             THEN Ok([company_overview |-> company_overview.v,
                      recent_developments |-> recent_developments.v,
                      products_pricing |-> products_pricing.v,
                      sources |-> sources.v])
             ELSE Bad

validate_PricePerformance(j) ==
    IF j.t # "dict" THEN Bad
    ELSE LET as_of == ReqStr(j, "as_of")
             last_close == OptNum(j, "last_close")
             change_5d_pct == OptNum(j, "change_5d_pct")
             change_1m_pct == OptNum(j, "change_1m_pct")
             change_6m_pct == OptNum(j, "change_6m_pct")
         IN  IF AllOk(<<as_of, last_close, change_5d_pct, change_1m_pct, change_6m_pct>>)
             THEN Ok([as_of |-> as_of.v, last_close |-> last_close.v,
                      change_5d_pct |-> change_5d_pct.v,
                      change_1m_pct |-> change_1m_pct.v,
                      change_6m_pct |-> change_6m_pct.v])
             ELSE Bad

validate_FinancialOverview(j) ==
    IF j.t # "dict" THEN Bad
    ELSE LET ticker == DefStr(j, "ticker", "unknown")
             market_cap == DefStr(j, "market_cap", "unknown")
             revenue == DefStr(j, "revenue", "unknown")
             revenue_growth == DefStr(j, "revenue_growth", "unknown")
             profitability == DefStr(j, "profitability", "unknown")
             burn_rate == DefStr(j, "burn_rate", "unknown")
             funding_and_valuation == DefStr(j, "funding_and_valuation", "unknown")
             price_performance ==
                 IF ~Has(j, "price_performance") \/ j.d["price_performance"].t = "null"
                 THEN Ok(NoneV)
                 ELSE validate_PricePerformance(j.d["price_performance"])
             notes == DefStrList(j, "notes")
         IN  IF AllOk(<<ticker, market_cap, revenue, revenue_growth, profitability,
                        burn_rate, funding_and_valuation, price_performance, notes>>)
             THEN Ok([ticker |-> ticker.v, market_cap |-> market_cap.v,
                      revenue |-> revenue.v, revenue_growth |-> revenue_growth.v,
                      profitability |-> profitability.v, burn_rate |-> burn_rate.v,
                      funding_and_valuation |-> funding_and_valuation.v,
                      price_performance |-> price_performance.v,
                      notes |-> notes.v])
             ELSE Bad

validate_FinancialAnalysisResult(j) ==
    IF j.t # "dict" THEN Bad
    ELSE LET financial_overview ==
                 IF Has(j, "financial_overview")
                 THEN validate_FinancialOverview(j.d["financial_overview"]) ELSE Bad
             sources == DefSources(j)
         IN  IF AllOk(<<financial_overview, sources>>)
             THEN Ok([financial_overview |-> financial_overview.v, sources |-> sources.v])
             ELSE Bad

SwotKeys == {"strengths", "weaknesses", "opportunities", "threats"}

\* swot: Dict[Literal[...4 keys...], List[str]]
validate_swot(j) ==
    IF ~Has(j, "swot") THEN Bad
    ELSE LET v == j.d["swot"] IN
         IF /\ v.t = "dict"
            /\ DOMAIN v.d \subseteq SwotKeys
            /\ \A k \in DOMAIN v.d : StrListOf(v.d[k]).ok
         THEN Ok([k \in DOMAIN v.d |-> StrListOf(v.d[k]).v])
         ELSE Bad

validate_ReportMemo(j) ==
    IF j.t # "dict" THEN Bad
    ELSE LET competitor_name == ReqStr(j, "competitor_name")
             date_label == DefStr(j, "date_label", "January 2025")
             executive_summary == ReqStrList(j, "executive_summary")
             company_overview ==
                 IF Has(j, "company_overview")
                 THEN validate_CompanyOverview(j.d["company_overview"]) ELSE Bad
             recent_developments ==
                 IF Has(j, "recent_developments")
                 THEN validate_RecentDevelopments(j.d["recent_developments"]) ELSE Bad
             financial_overview ==
                 IF Has(j, "financial_overview")
                 THEN validate_FinancialOverview(j.d["financial_overview"]) ELSE Bad
             products_pricing ==
                 IF Has(j, "products_pricing")
                 THEN validate_ProductsPricing(j.d["products_pricing"]) ELSE Bad
             swot == validate_swot(j)
             key_takeaways == ReqStrList(j, "key_takeaways")
         IN  IF AllOk(<<competitor_name, date_label, executive_summary, company_overview,
                        recent_developments, financial_overview, products_pricing, swot,
                        key_takeaways>>)
             THEN Ok([competitor_name |-> competitor_name.v,
                      date_label |-> date_label.v,
                      executive_summary |-> executive_summary.v,
                      company_overview |-> company_overview.v,
                      recent_developments |-> recent_developments.v,
                      financial_overview |-> financial_overview.v,
                      products_pricing |-> products_pricing.v,
                      swot |-> swot.v,
                      key_takeaways |-> key_takeaways.v])
             ELSE Bad

validate_ManagerParsedPrompt(j) ==
    IF j.t # "dict" THEN Bad
    ELSE LET competitor_name == ReqStr(j, "competitor_name")
             ticker == OptStr(j, "ticker")
             industry == OptStr(j, "industry")
             region == OptStr(j, "region")
             time_horizon == OptStr(j, "time_horizon")
             keywords == DefStrList(j, "keywords")
         IN  IF AllOk(<<competitor_name, ticker, industry, region, time_horizon, keywords>>)
             THEN Ok([competitor_name |-> competitor_name.v, ticker |-> ticker.v,
                      industry |-> industry.v, region |-> region.v,
                      time_horizon |-> time_horizon.v, keywords |-> keywords.v])
             ELSE Bad

\* Model.model_validate_json(raw) of a text: Ok(object), or Bad when it raises
NewsResearchResult_model_validate_json(raw) ==
    IF raw.json = NotJson THEN Bad ELSE validate_NewsResearchResult(raw.json)

FinancialAnalysisResult_model_validate_json(raw) ==
    IF raw.json = NotJson THEN Bad ELSE validate_FinancialAnalysisResult(raw.json)

ReportMemo_model_validate_json(raw) ==
    IF raw.json = NotJson THEN Bad ELSE validate_ReportMemo(raw.json)

ManagerParsedPrompt_model_validate_json(raw) ==
    IF raw.json = NotJson THEN Bad ELSE validate_ManagerParsedPrompt(raw.json)

(***************************************************************************)
(* manager.py: completeness checker                                        *)
(***************************************************************************)
description_missing(co) ==
    co.description = "" \/ Lower(Strip(co.description)) \in {"unknown", "n/a"}

founded_missing(co) == Lower(Strip(co.founded)) = "unknown"

hq_location_missing(co) == Lower(Strip(co.hq_location)) = "unknown"

executives_missing(co) == co.executives = <<>>

\* the count at which a second search is run
SecondSearchThreshold == 3

_needs_second_search_all(res) ==
    /\ description_missing(res.company_overview)
    /\ founded_missing(res.company_overview)
    /\ hq_location_missing(res.company_overview)
    /\ executives_missing(res.company_overview)

_needs_second_search_two(res) ==
    Cardinality({f \in {1, 2, 3, 4} :
        \/ f = 1 /\ description_missing(res.company_overview)
        \/ f = 2 /\ founded_missing(res.company_overview)
        \/ f = 3 /\ hq_location_missing(res.company_overview)
        \/ f = 4 /\ executives_missing(res.company_overview)}) >= 2

_needs_second_search(res) ==
    LET co == res.company_overview
        m1 == IF description_missing(co) THEN 1 ELSE 0
        m2 == m1 + (IF founded_missing(co) THEN 1 ELSE 0)
        m3 == m2 + (IF hq_location_missing(co) THEN 1 ELSE 0)
        missing == m3 + (IF executives_missing(co) THEN 1 ELSE 0)
    IN  missing >= SecondSearchThreshold

(***************************************************************************)
(* manager.py: prompt parser, regex fallback                               *)
(***************************************************************************)
Letters == CharsOf(UpperAlpha) \cup CharsOf(LowerAlpha)

\* [A-Za-z0-9\-\+]
TokenChars == Letters \cup CharsOf(Digits) \cup {"-", "+"}

\* [A-Za-z\.\-]
TickerChars == Letters \cup {".", "-"}

\* the characters [^\n\.\,] excludes
NameStops == {"\n", ".", ","}

\* the most characters of a ticker group, {1,8}
TickerMaxLen == 8

\* the length of the first-line chunk, [:80]
NameMaxLen == 80

\* the fewest characters after the first of a token, {2,}
TokenMinTail == 2

\* the most keywords kept, [:10]
MaxKeywords == 10

\* the position after the longest run, from i, of at most n characters that
\* are in cs (neg = FALSE) or not in cs (neg = TRUE)
RECURSIVE RunEnd(_, _, _, _, _)
RunEnd(s, i, cs, neg, n) ==
    IF n > 0 /\ i <= Len(s) /\ (Char(s, i) \in cs) = ~neg
    THEN RunEnd(s, i + 1, cs, neg, n - 1)
    ELSE i

\* <word>\s*:\s* at position i, case-insensitively: the positions where the
\* group can start
LabelEnds(s, word, i) ==
    IF i + Len(word) - 1 <= Len(s) /\ Lower(SubSeq(s, i, i + Len(word) - 1)) = word
    THEN Ends(Cat(<<Star(Ws), Lit(":"), Star(Ws)>>), s, {i + Len(word)})
    ELSE {}

\* re.search(r"<word>\s*:\s*(<group>)", s, re.IGNORECASE).group(1), the group
\* being a run of 1 to n characters; NoneV when nothing matches.  \s* is
\* greedy: the group starts at the last position that lets it match.
LabelGroup(s, word, cs, neg, n) ==
    LET starts(i) == {q \in LabelEnds(s, word, i) : RunEnd(s, q, cs, neg, 1) > q}
        hits == {i \in 1..Len(s) : starts(i) # {}}
    IN  IF hits = {} THEN NoneV
        ELSE LET i == CHOOSE h \in hits : \A g \in hits : h <= g
                 q == CHOOSE a \in starts(i) : \A b \in starts(i) : a >= b
             IN  Some(SubSeq(s, q, RunEnd(s, q, cs, neg, n) - 1))

\* s.split("\n")[0]
FirstLine(s) == SubSeq(s, 1, RunEnd(s, 1, {"\n"}, TRUE, Len(s)) - 1)

\* s[:n]
Prefix(s, n) == SubSeq(s, 1, IF Len(s) < n THEN Len(s) ELSE n)

\* re.findall(r"[A-Za-z][A-Za-z0-9\-\+]{2,}", s), scanning from position i
RECURSIVE FindTokens(_, _)
FindTokens(s, i) ==
    IF i > Len(s) THEN <<>>
    ELSE LET e == RunEnd(s, i + 1, TokenChars, FALSE, Len(s)) IN
         IF Char(s, i) \in Letters /\ e - (i + 1) >= TokenMinTail
         THEN <<SubSeq(s, i, e - 1)>> \o FindTokens(s, e)
         ELSE FindTokens(s, i + 1)

stop ==
    {"find", "latest", "news", "press", "releases", "product", "products", "launch",
     "launches", "for", "about", "research", "competitor", "focus", "recent",
     "pricing", "and", "any", "financial", "signals"}

RECURSIVE DropStops(_, _)
DropStops(tokens, competitor) ==
    IF tokens = <<>> THEN <<>>
    ELSE LET tl == Lower(Head(tokens)) IN
         IF tl \in stop \/ tl = Lower(competitor)
         THEN DropStops(Tail(tokens), competitor)
         ELSE <<Head(tokens)>> \o DropStops(Tail(tokens), competitor)

\* de-dup, case-insensitively, preserving order
RECURSIVE DedupLower(_, _)
DedupLower(keywords, seen) ==
    IF keywords = <<>> THEN <<>>
    ELSE IF Lower(Head(keywords)) \in seen THEN DedupLower(Tail(keywords), seen)
    ELSE <<Head(keywords)>>
         \o DedupLower(Tail(keywords), seen \cup {Lower(Head(keywords))})

\* keywords2[:10]
KeywordCap(keywords) ==
    SubSeq(keywords, 1, IF Len(keywords) < MaxKeywords THEN Len(keywords) ELSE MaxKeywords)

ParsedPrompt(name, ticker, keywords) ==
    [competitor_name |-> name, ticker |-> ticker, industry |-> NoneV,
     region |-> NoneV, time_horizon |-> NoneV, keywords |-> keywords]

_parse_prompt_with_regex(prompt) ==
    LET m == LabelGroup(prompt, "competitor", NameStops, TRUE, Len(prompt))
        m2 == LabelGroup(prompt, "ticker", TickerChars, FALSE, TickerMaxLen)
        named == IF IsNone(m) THEN "" ELSE Strip(m.some)
        ticker == IF IsNone(m2) THEN NoneV ELSE Some(Upper(Strip(m2.some)))
        competitor ==
            IF named = "" THEN Strip(Prefix(FirstLine(Strip(prompt)), NameMaxLen))
            ELSE named
        keywords2 == DedupLower(DropStops(FindTokens(prompt, 1), competitor), {})
    IN  ParsedPrompt(competitor, ticker, KeywordCap(keywords2))

(***************************************************************************)
(* manager.py: entity and focused query of a quick question                *)
(***************************************************************************)
Max(S) == CHOOSE a \in S : \A b \in S : a >= b

Min(S) == CHOOSE a \in S : \A b \in S : a <= b

\* re.search(r"<lit>\s+(?P<e>.+)<suffix>", s, re.IGNORECASE).group("e"); NoneV
\* when nothing matches.  The leftmost match wins; \s+ and then .+ are greedy.
EntityGroup(s, lit, suffix) ==
    LET low == Lower(s)
        at(i) == Ends(Cat(<<Lit(lit), Plus(Ws)>>), low, {i})
        stops(g) == {h \in Ends(Plus(Dot), low, {g}) : Ends(suffix, low, {h}) # {}}
        starts(i) == {g \in at(i) : stops(g) # {}}
        hits == {i \in 1..Len(s) : starts(i) # {}}
    IN  IF hits = {} THEN NoneV
        ELSE LET g == Max(starts(Min(hits))) IN Some(SubSeq(s, g, Max(stops(g)) - 1))

\* \s+<word>\?
TailWord(w) == Cat(<<Plus(Ws), w, Lit("?")>>)

entity_patterns ==
    << [lit |-> "ceo of", suffix |-> Lit("?")],
       [lit |-> "where is",
        suffix |-> TailWord(Alt(<<Lit("headquartered"), Lit("based")>>))],
       [lit |-> "when was", suffix |-> TailWord(Lit("founded"))],
       [lit |-> "what is", suffix |-> TailWord(Lit("ticker"))],
       [lit |-> "how many employees does", suffix |-> TailWord(Lit("have"))],
       [lit |-> "what does", suffix |-> TailWord(Lit("do"))] >>

\* re.sub(r"[\?\.]+$", "", s) of a text that ends in no newline
RECURSIVE DropTrailingMarks(_)
DropTrailingMarks(s) ==
    IF s # "" /\ Char(s, Len(s)) \in {"?", "."}
    THEN DropTrailingMarks(SubSeq(s, 1, Len(s) - 1))
    ELSE s

\* \w
WordChars == Letters \cup CharsOf(Digits) \cup {"_"}

question_words == <<"who", "where", "when", "what", "how many">>

\* re.sub(r"^(who|where|when|what|how many)\b", "", s, flags=re.IGNORECASE)
DropQuestionWord(s) ==
    LET fits(w) == /\ StartsWith(Lower(s), w)
                   /\ (Len(s) = Len(w) \/ Char(s, Len(w) + 1) \notin WordChars)
        found == {i \in 1..Len(question_words) : fits(question_words[i])}
    IN  IF found = {} THEN s
        ELSE SubSeq(s, Len(question_words[Min(found)]) + 1, Len(s))

_extract_entity_from_question(user_message) ==
    LET msg == Strip(user_message)
        group(i) == EntityGroup(msg, entity_patterns[i].lit, entity_patterns[i].suffix)
        found == {i \in 1..Len(entity_patterns) : ~IsNone(group(i))}
    IN  IF found # {}
        THEN Strip(DropTrailingMarks(Strip(group(Min(found)).some)))
        ELSE Prefix(Strip(DropTrailingMarks(Strip(DropQuestionWord(msg)))), NameMaxLen)

_focused_query_for_simple_fact(question, entity) ==
    LET q == Lower(question) IN
    IF Contains(q, "ceo") THEN entity \o " CEO"
    ELSE IF Contains(q, "headquartered") \/ Contains(q, "headquarters")
            \/ Contains(q, "based")
    THEN entity \o " headquarters"
    ELSE IF Contains(q, "founded") THEN entity \o " founded year"
    ELSE IF Contains(q, "ticker") THEN entity \o " ticker symbol"
    ELSE IF Contains(q, "employees") \/ Contains(q, "headcount")
    THEN entity \o " number of employees"
    ELSE IF Contains(q, "what does") /\ Contains(q, "do")
    THEN "what does " \o entity \o " do"
    ELSE Strip(entity \o " " \o question)

\* lines 380-389 of _run_quick_answer: the query the search is run with
quick_focused_query(user_message) ==
    LET entity == _extract_entity_from_question(user_message)
        lm == Lower(user_message)
        biased(term) == IF entity # "" THEN entity \o " " \o term ELSE term
    IN  IF Contains(lm, "net worth") THEN biased("net worth Forbes")
        ELSE IF Contains(lm, "market cap") THEN biased("market cap")
        ELSE IF Contains(lm, "revenue") THEN biased("revenue")
        ELSE _focused_query_for_simple_fact(user_message, entity)

(***************************************************************************)
(* QuickAnswerResult, and the one-sentence reply of _run_quick_answer      *)
(***************************************************************************)
Confidences == {"low", "medium", "high"}

validate_QuickAnswerResult(j) ==
    IF j.t # "dict" THEN Bad
    ELSE LET answer == ReqStr(j, "answer")
             source_url == ReqStr(j, "source_url")
             confidence == ReqStr(j, "confidence")
             query_used == ReqStr(j, "query_used")
         IN  IF AllOk(<<answer, source_url, confidence, query_used>>)
                /\ confidence.v \in Confidences
             THEN Ok([answer |-> answer.v, source_url |-> source_url.v,
                      confidence |-> confidence.v, query_used |-> query_used.v])
             ELSE Bad

QuickAnswerResult_model_validate_json(raw) ==
    IF raw.json = NotJson THEN Bad ELSE validate_QuickAnswerResult(raw.json)

\* re.sub(r"[cs]+", " ", s): every run of characters of cs becomes one space
RECURSIVE CollapseRuns(_, _)
CollapseRuns(s, cs) ==
    IF s = "" THEN ""
    ELSE IF Head(s) \in cs
    THEN " " \o CollapseRuns(SubSeq(s, RunEnd(s, 1, cs, FALSE, Len(s)), Len(s)), cs)
    ELSE Head(s) \o CollapseRuns(Tail(s), cs)

\* the bullet markers of [-*<U+2022>]; no text of the model holds U+2022
BulletMarks == {"-", "*"}

\* re.sub(r"^[-*<U+2022>]\s+", "", s)
DropBullet(s) ==
    IF Len(s) >= 2 /\ Head(s) \in BulletMarks /\ Char(s, 2) \in WhiteSpace
    THEN SubSeq(s, RunEnd(s, 2, WhiteSpace, FALSE, Len(s)), Len(s))
    ELSE s

TerminalMarks == {".", "!", "?"}

\* s.rstrip(".")
RECURSIVE RStripDots(_)
RStripDots(s) ==
    IF s # "" /\ Char(s, Len(s)) = "." THEN RStripDots(SubSeq(s, 1, Len(s) - 1)) ELSE s

\* lines 433-445 of _run_quick_answer
quick_reply(qa) ==
    LET a1 == DropBullet(CollapseRuns(CollapseRuns(Strip(qa.answer), WhiteSpace), {"\n"}))
        m == RunEnd(a1, 1, TerminalMarks, TRUE, Len(a1))
        a2 == IF m <= Len(a1) THEN Strip(SubSeq(a1, 1, m)) ELSE RStripDots(a1) \o "."
    IN  IF qa.source_url # "" /\ ~Contains(a2, qa.source_url)
        THEN RStripDots(a2) \o " (" \o qa.source_url \o ")."
        ELSE a2

(***************************************************************************)
(* schemas.py: ReportMemo.render_markdown                                  *)
(***************************************************************************)
\* "\n".join(items), "; ".join(items)
RECURSIVE Join(_, _)
Join(items, sep) ==
    IF items = <<>> THEN ""
    ELSE IF Len(items) = 1 THEN items[1]
    ELSE items[1] \o sep \o Join(Tail(items), sep)

RECURSIVE NatStr(_)
NatStr(n) ==
    IF n < 10 THEN Char(Digits, n + 1) ELSE NatStr(n \div 10) \o Char(Digits, (n % 10) + 1)

\* str() of an Optional[float]; the floats of the model are whole numbers
FloatStr(x) ==
    IF IsNone(x) THEN "None"
    ELSE IF x.some < 0 THEN "-" \o NatStr(0 - x.some) \o ".0"
    ELSE NatStr(x.some) \o ".0"

bullets(items) ==
    IF items # <<>> THEN Join([i \in 1..Len(items) |-> "- " \o items[i]], "\n")
    ELSE "- unknown"

\* self.swot.get(key, [])
SwotGet(swot, key) == IF key \in DOMAIN swot THEN swot[key] ELSE <<>>

render_markdown(self) ==
    LET co == self.company_overview
        rd == self.recent_developments
        pp == self.products_pricing
        fo == self.financial_overview
        perf == fo.price_performance
        head ==
            << "Market Report: **" \o self.competitor_name \o "**",
               "date: **" \o self.date_label \o "**",
               "",
               "**Executive Summary**",
               bullets(self.executive_summary),
               "",
               "**Company Overview**",
               "- description of the business  \n  " \o co.description,
               "- founded (year/date)  \n  " \o co.founded,
               "- location  \n  " \o co.hq_location,
               "- employees (headcount)  \n  " \o co.employees,
               "- executives/leadership (CEO, founders)  \n  "
                   \o (IF co.executives # <<>> THEN Join(co.executives, "; ")
                       ELSE "unknown"),
               "",
               "**Recent Developments**",
               "- product news/updates / new products",
               bullets(rd.product_news),
               "- partnerships and deals",
               bullets(rd.partnerships_and_deals),
               "- organizational changes",
               bullets(rd.org_changes),
               "",
               "**Financial Overview**",
               "- revenue & growth",
               "- " \o fo.revenue \o " | growth: " \o fo.revenue_growth,
               "- funding & valuation",
               "- " \o fo.funding_and_valuation,
               "- profitability & burn rate",
               "- profitability: " \o fo.profitability \o " | burn rate: " \o fo.burn_rate >>
        price ==
            IF IsNone(perf) THEN <<>>
            ELSE << "- price performance (as of " \o perf.as_of \o "): last close "
                    \o FloatStr(perf.last_close) \o "; 5d " \o FloatStr(perf.change_5d_pct)
                    \o "%; 1m " \o FloatStr(perf.change_1m_pct)
                    \o "%; 6m " \o FloatStr(perf.change_6m_pct) \o "%" >>
        notes == IF fo.notes # <<>> THEN <<"- notes", bullets(fo.notes)>> ELSE <<>>
        rest ==
            << "",
               "**Products & Pricing**",
               "- core products",
               bullets(pp.core_products),
               "- pricing model",
               "- " \o pp.pricing_model,
               "- competitive differentiation",
               bullets(pp.competitive_differentiation),
               "",
               "**SWOT Analysis**",
               "- strengths (internal +)",
               bullets(SwotGet(self.swot, "strengths")),
               "- weaknesses (internal -)",
               bullets(SwotGet(self.swot, "weaknesses")),
               "- opportunities (external +)",
               bullets(SwotGet(self.swot, "opportunities")),
               "- threats (external -)",
               bullets(SwotGet(self.swot, "threats")),
               "",
               "**Key Takeaways**",
               bullets(self.key_takeaways) >>
    IN  Join(head \o price \o notes \o rest, "\n")

(***************************************************************************)
(* The values the providers and the specialist steps answer with           *)
(***************************************************************************)
Source(title, url) ==
    [title |-> title, url |-> url, snippet |-> NoneV, published_date |-> NoneV]

srcA == Source("Acme newsroom", "https://acme.example/news")

srcA2 == Source("Acme press (mirror)", "https://acme.example/news")

srcB == Source("Acme on Wikipedia", "https://wiki.example/Acme")

CompanyOverview(description, founded, hq_location, executives) ==
    [description |-> description, founded |-> founded, hq_location |-> hq_location,
     employees |-> "unknown", executives |-> executives]

NoDevelopments ==
    [product_news |-> <<>>, partnerships_and_deals |-> <<>>, org_changes |-> <<>>]

NoPricing ==
    [core_products |-> <<>>, pricing_model |-> "unknown",
     competitive_differentiation |-> <<>>]

NewsResearchResult(co, sources) ==
    [company_overview |-> co, recent_developments |-> NoDevelopments,
     products_pricing |-> NoPricing, sources |-> sources]

\* nothing missing / two signals missing / three signals missing
newsFull ==
    NewsResearchResult(CompanyOverview("Acme makes rockets", "2002", "Austin",
                                       <<"Jane Roe">>), <<srcA>>)

newsTwo ==
    NewsResearchResult(CompanyOverview("Acme makes rockets", " Unknown", "unknown",
                                       <<"Jane Roe">>), <<srcB>>)

newsThree ==
    NewsResearchResult(CompanyOverview("N/A", "unknown", "unknown", <<"Jane Roe">>),
                       <<srcB>>)

TaskOutput(pydantic, raw) == [pydantic |-> pydantic, raw |-> raw]

\* a raw text that is no JSON document
rawProse == Text("Here is what I found: ...", NotJson)

\* a NewsResearchResult document that leaves every defaulted field out
rawNewsMinimal ==
    Text("{\"company_overview\": {\"description\": \"Acme makes rockets\"}, ...}",
         JDict([company_overview |-> JDict([description |-> JStr("Acme makes rockets")]),
                recent_developments |-> JDict(<<>>),
                products_pricing |-> JDict(<<>>)]))

\* a complete NewsResearchResult document
rawNewsFull ==
    Text("{\"company_overview\": {\"description\": ..., \"founded\": ...}, ...}",
         JDict([company_overview |->
                    JDict([description |-> JStr("Acme makes rockets"),
                           founded |-> JStr("2002"),
                           hq_location |-> JStr("Austin"),
                           executives |-> JList(<<JStr("Jane Roe")>>)]),
                recent_developments |-> JDict([product_news |-> JList(<<JStr("v2")>>)]),
                products_pricing |-> JDict([pricing_model |-> JStr("per seat")]),
                sources |-> JList(<<JDict([title |-> JStr("Acme newsroom"),
                                          url |-> JStr("https://acme.example/news")])>>)]))

\* a JSON document that is no NewsResearchResult: description is missing
rawNewsBad ==
    Text("{\"company_overview\": {\"founded\": \"2002\"}, ...}",
         JDict([company_overview |-> JDict([founded |-> JStr("2002")]),
                recent_developments |-> JDict(<<>>),
                products_pricing |-> JDict(<<>>)]))

NewsOutputs ==
    {TaskOutput(r, rawProse) : r \in {newsFull, newsTwo, newsThree}}
    \cup {TaskOutput(NoneV, raw) :
            raw \in {NoneV, rawProse, rawNewsMinimal, rawNewsFull, rawNewsBad}}

FinancialOverview(ticker) ==
    [ticker |-> ticker, market_cap |-> "unknown", revenue |-> "unknown",
     revenue_growth |-> "unknown", profitability |-> "unknown",
     burn_rate |-> "unknown", funding_and_valuation |-> "unknown",
     price_performance |-> NoneV, notes |-> <<>>]

finTyped == [financial_overview |-> FinancialOverview("NVDA"), sources |-> <<srcB>>]

rawFinGood ==
    Text("{\"financial_overview\": {\"ticker\": \"ACM\", \"revenue\": \"$1.20B\"}}",
         JDict([financial_overview |->
                    JDict([ticker |-> JStr("ACM"), revenue |-> JStr("$1.20B")])]))

\* market_cap is a number where the schema wants a string
rawFinBad ==
    Text("{\"financial_overview\": {\"market_cap\": 5}}",
         JDict([financial_overview |-> JDict([market_cap |-> JNum(5)])]))

FinancialOutputs ==
    {TaskOutput(finTyped, rawProse)}
    \cup {TaskOutput(NoneV, raw) : raw \in {NoneV, rawProse, rawFinGood, rawFinBad}}

reportTyped ==
    [competitor_name |-> "Acme", date_label |-> "January 2025",
     executive_summary |-> <<"Acme is growing">>,
     company_overview |-> newsFull.company_overview,
     recent_developments |-> NoDevelopments,
     financial_overview |-> FinancialOverview("ACM"),
     products_pricing |-> NoPricing,
     swot |-> [k \in SwotKeys |-> <<>>],
     key_takeaways |-> <<"Watch pricing">>]

rawReportGood ==
    Text("{\"competitor_name\": \"Acme\", \"executive_summary\": [], ...}",
         JDict([competitor_name |-> JStr("Acme"),
                executive_summary |-> JList(<<>>),
                company_overview |-> JDict([description |-> JStr("Acme makes rockets")]),
                recent_developments |-> JDict(<<>>),
                financial_overview |-> JDict(<<>>),
                products_pricing |-> JDict(<<>>),
                swot |-> JDict([strengths |-> JList(<<JStr("brand")>>)]),
                key_takeaways |-> JList(<<>>)]))

\* key_takeaways is missing
rawReportBad ==
    Text("{\"competitor_name\": \"Acme\", \"executive_summary\": []}",
         JDict([competitor_name |-> JStr("Acme"), executive_summary |-> JList(<<>>)]))

ReportOutputs ==
    {TaskOutput(reportTyped, rawProse)}
    \cup {TaskOutput(NoneV, raw) : raw \in {NoneV, rawProse, rawReportGood, rawReportBad}}

quickTyped ==
    [answer |-> "The CEO of Tesla is Elon Musk.",
     source_url |-> "https://www.tesla.com/leadership",
     confidence |-> "high", query_used |-> "Tesla CEO"]

rawQuickGood ==
    Text("{\"answer\": \"- Elon Musk leads Tesla\", \"source_url\": \"\", ...}",
         JDict([answer |-> JStr("- Elon Musk leads Tesla"), source_url |-> JStr(""),
                confidence |-> JStr("low"), query_used |-> JStr("Tesla CEO")]))

\* confidence is outside the enumeration
rawQuickBad ==
    Text("{\"answer\": \"Elon Musk\", \"confidence\": \"sure\", ...}",
         JDict([answer |-> JStr("Elon Musk"), source_url |-> JStr(""),
                confidence |-> JStr("sure"), query_used |-> JStr("Tesla CEO")]))

QuickOutputs ==
    {TaskOutput(quickTyped, rawProse)}
    \cup {TaskOutput(NoneV, raw) : raw \in {NoneV, rawProse, rawQuickGood, rawQuickBad}}

\* what serper_search can return
SearchResults == {<<>>, <<srcA, srcA2>>}

Messages ==
    {"Research Nvidia ticker NVDA", "competitor: Acme, ticker: acm",
     "Who is the CEO of Tesla?", "How do I become a CEO?"}

gateInDomain ==
    Text("{\"domain\": \"in_domain\", \"category\": \"company_research\", \"reason\": \"x\"}",
         JDict([domain |-> JStr("in_domain"), category |-> JStr("company_research"),
                reason |-> JStr("x")]))

gateOutOfDomain ==
    Text("{\"domain\": \"out_of_domain\", \"category\": \"life_advice\", \"reason\": \"x\"}",
         JDict([domain |-> JStr("out_of_domain"), category |-> JStr("life_advice"),
                reason |-> JStr("x")]))

\* values outside the enumerations, a blank reason
gateOdd ==
    Text("{\"domain\": \"maybe\", \"category\": 5, \"reason\": \" \"}",
         JDict([domain |-> JStr("maybe"), category |-> JNum(5), reason |-> JStr(" ")]))

gateList == Text("[\"in_domain\"]", JList(<<JStr("in_domain")>>))

gateNested ==
    Text("{\"domain\": [\"in_domain\"]}", JDict([domain |-> JList(<<JStr("in_domain")>>)]))

GateReplies ==
    {CallRaised, CallReturned(NoneV)}
    \cup {CallReturned(t) : t \in {Text("  ", NotJson), rawProse, gateInDomain,
                                   gateOutOfDomain, gateOdd, gateList, gateNested}}

parseGood ==
    Text("{\"competitor_name\": \"Nvidia\", \"ticker\": \"NVDA\", \"keywords\": [\"GPU\"]}",
         JDict([competitor_name |-> JStr("Nvidia"), ticker |-> JStr("NVDA"),
                keywords |-> JList(<<JStr("GPU")>>)]))

\* competitor_name is missing
parseBad == Text("{\"ticker\": \"NVDA\"}", JDict([ticker |-> JStr("NVDA")]))

ParseReplies ==
    {CallRaised, CallReturned(NoneV)}
    \cup {CallReturned(t) : t \in {Text("", NotJson), rawProse, parseGood, parseBad}}

(***************************************************************************)
(* The request                                                             *)
(***************************************************************************)
Pending == [kind |-> "pending"]

\* ManagerResult(state=..., memo_markdown=...)
ManagerResult(st, doc) == [kind |-> "returned", state |-> st, memo_markdown |-> doc]

Failed(e) == [kind |-> "raised", exc |-> e.exc, msg |-> e.msg]

ManagerState(name, parsed_prompt) ==
    [competitor_name |-> name, parsed_prompt |-> parsed_prompt,
     company_overview |-> NoneV, recent_developments |-> NoneV,
     products_pricing |-> NoneV, financial_overview |-> NoneV, sources |-> <<>>]

\* ManagerParsedPrompt(competitor_name="unknown")
UnknownPrompt == ParsedPrompt("unknown", NoneV, <<>>)

fixed ==
    "I can only help with company, business, finance, and stock-related questions"
    \o "-please try another question."

WorkflowEntryRoute == "route"

\* the first statement of run_manager_workflow: the domain gate (line 449)
WorkflowEntry == "gate"

Kickoffs == {"quick", "news", "news2", "financial", "report"}

IsKickoff(e) == e \in Kickoffs

\* the Crew kickoffs of the request, in order
Steps == SelectSeq(events, IsKickoff)

Count(e) == Cardinality({i \in 1..Len(events) : events[i] = e})

Idle == pin = NoneV /\ pout = NoneV

Init ==
    /\ message \in Messages
    /\ env \in [openai : BOOLEAN, serper : BOOLEAN, alpha : BOOLEAN]
    /\ \/ pc = "chat" /\ llm = "none"
       \/ pc = WorkflowEntry /\ llm \in {"llm", "none"}
    /\ classification = NoneV
    /\ intent = "none"
    /\ parsed = NoneV
    /\ state = NoneV
    /\ qi = 0
    /\ fetched = <<>>
    /\ output = NoneV
    /\ nr = NoneV
    /\ firstOut = NoneV
    /\ firstNr = NoneV
    /\ events = <<>>
    /\ fin = NoneV
    /\ ret = Pending
    /\ Idle

RaiseRetry(e) ==
    /\ pc' = pc
    /\ ret' = ret

\* the request ends with an exception
Raise(e) ==
    /\ pc' = "done"
    /\ ret' = Failed(e)

\* api.chat: load_config, _build_llm, then run_manager_workflow
Chat ==
    /\ pc = "chat"
    /\ IF env.openai
       THEN /\ llm' = "llm"
            /\ pc' = WorkflowEntry
            /\ ret' = ret
       ELSE /\ Raise(Raised("RuntimeError", "OPENAI_API_KEY is required"))
            /\ llm' = llm
    /\ UNCHANGED <<env, message, classification, intent, parsed, state, qi, fetched,
                   output, nr, firstOut, firstNr, events, fin, pin, pout>>

GateRejectsNever(c) == FALSE

\* line 452
GateRejects(c) == c.domain = "out_of_domain"

\* run_manager_workflow, lines 449-461: the domain gate
DomainGate ==
    /\ pc = "gate"
    /\ \E reply \in GateReplies :
         LET c == classify_domain(message, llm, reply)
             called == IF ~classify_domain_calls(llm) THEN <<>>
                       ELSE IF reply.call = "raised"
                       THEN <<"llm_call", "gate_call_failed">>
                       ELSE <<"llm_call">>
         IN  IF IsRaised(c)
             THEN /\ Raise(c)
                  /\ events' = events \o called
                  /\ UNCHANGED <<classification, state>>
             ELSE /\ classification' = c
                  /\ events' = events \o called \o <<"gate_done">>
                  /\ IF GateRejects(c)
                     THEN /\ state' = ManagerState("unknown", UnknownPrompt)
                          /\ ret' = ManagerResult(state', fixed)
                          /\ pc' = "done"
                     ELSE /\ pc' = "route"
                          /\ UNCHANGED <<state, ret>>
    /\ UNCHANGED <<env, llm, message, intent, parsed, qi, fetched, output, nr,
                   firstOut, firstNr, fin, pin, pout>>

\* detect_intent and the query of a quick answer on every message of the
\* model, computed once
IntentOf == [m \in Messages |-> detect_intent(m)]

FocusedQueryOf == [m \in Messages |-> quick_focused_query(m)]

\* a routing that computes the intent and runs the full report all the same
RouteAlwaysFull ==
    /\ pc = "route"
    /\ intent' = detect_intent(message)
    /\ pc' = "parse"
    /\ UNCHANGED <<env, llm, message, classification, parsed, state, qi, fetched,
                   output, nr, firstOut, firstNr, events, fin, ret, pin, pout>>

\* lines 463-466: intent routing
Route ==
    /\ pc = "route"
    /\ intent' = IntentOf[message]
    /\ pc' = IF intent' = "quick_answer" THEN "quick_build" ELSE "parse"
    /\ UNCHANGED <<env, llm, message, classification, parsed, state, qi, fetched,
                   output, nr, firstOut, firstNr, events, fin, ret, pin, pout>>

\* crew.kickoff() itself failing
KickoffFailed == Raised("Exception", "crew.kickoff failed")

\* serper_search failing: no credential, or every attempt failed
SearchFailed(query) ==
    Raised("SerperSearchError",
           IF env.serper THEN "Serper search failed for query=" \o query
           ELSE "SERPER_API_KEY is required")

\* what a call of serper_search can do in this environment
SearchOutcomes ==
    {CallRaised} \cup (IF env.serper THEN {CallReturned(r) : r \in SearchResults} ELSE {})

\* lines 414-424: the QuickAnswerResult of the task, or the exception raised
recover_quick(out) ==
    IF ~IsNone(out.pydantic) THEN Ok(out.pydantic)
    ELSE IF IsText(out.raw)
    THEN LET v == QuickAnswerResult_model_validate_json(out.raw) IN
         IF v.ok THEN v ELSE Raised("ValidationError", "QuickAnswerResult")
    ELSE Raised("RuntimeError", "QuickAnswerResult parsing failed")

\* _run_quick_answer, lines 380-404, with build_news_task in quick_answer mode
QuickBuild ==
    /\ pc = "quick_build"
    /\ LET focused_query == FocusedQueryOf[message] IN
       IF focused_query = ""
       THEN /\ Raise(Raised("ValueError", "focused_query is required for quick_answer mode"))
            /\ UNCHANGED <<events, fetched>>
       ELSE /\ events' = Append(events, "search")
            /\ \E o \in SearchOutcomes :
                 IF o.call = "raised"
                 THEN Raise(SearchFailed(focused_query)) /\ fetched' = fetched
                 ELSE /\ fetched' = o.value
                      /\ pc' = "quick_kickoff"
                      /\ ret' = ret
    /\ UNCHANGED <<env, llm, message, classification, intent, parsed, state, qi,
                   output, nr, firstOut, firstNr, fin, pin, pout>>

\* _run_quick_answer, lines 406-445, and lines 467-473 of run_manager_workflow
QuickKickoff ==
    /\ pc = "quick_kickoff"
    /\ events' = Append(events, "quick")
    /\ \/ Raise(KickoffFailed) /\ UNCHANGED <<output, state>>
       \/ \E out \in QuickOutputs :
            LET qa == recover_quick(out)
                entity == _extract_entity_from_question(message)
            IN  /\ output' = out
                /\ IF IsRaised(qa)
                   THEN Raise(qa) /\ state' = state
                   ELSE /\ state' = ManagerState(IF entity # "" THEN entity ELSE "unknown",
                                                 UnknownPrompt)
                        /\ ret' = ManagerResult(state', quick_reply(qa.v))
                        /\ pc' = "done"
    /\ UNCHANGED <<env, llm, message, classification, intent, parsed, qi, fetched,
                   nr, firstOut, firstNr, fin, pin, pout>>

\* _parse_prompt_with_llm: NoneV, or the validated ManagerParsedPrompt
_parse_prompt_with_llm(prompt, l, reply) ==
    IF l = "none" \/ reply.call = "raised" THEN NoneV
    ELSE IF ~IsText(reply.value) \/ Strip(reply.value.s) = "" THEN NoneV
    ELSE LET v == ManagerParsedPrompt_model_validate_json(reply.value) IN
         IF v.ok THEN v.v ELSE NoneV

\* a parse that always takes the regex
parse_prompt_regex_only(prompt, l, reply) ==
    [parsed |-> _parse_prompt_with_regex(prompt), fallback |-> TRUE]

\* lines 475-477: the extraction by the text provider, or else the regex;
\* fallback tells whether _parse_prompt_with_regex was called
parse_prompt(prompt, l, reply) ==
    LET byLlm == _parse_prompt_with_llm(prompt, l, reply) IN
    IF IsNone(byLlm)
    THEN [parsed |-> _parse_prompt_with_regex(prompt), fallback |-> TRUE]
    ELSE [parsed |-> byLlm, fallback |-> FALSE]

\* parse_prompt on every prompt, provider and answer of the model, computed once
ParseTable ==
    [m \in Messages |->
        [l \in {"llm", "none"} |-> [reply \in ParseReplies |-> parse_prompt(m, l, reply)]]]

\* lines 475-485: the parsed prompt and the fresh state
ParsePrompt ==
    /\ pc = "parse"
    /\ \E reply \in ParseReplies :
         /\ parsed' = ParseTable[message][llm][reply].parsed
         /\ events' = IF llm = "none" THEN events ELSE Append(events, "llm_call")
    /\ state' = ManagerState(parsed'.competitor_name, parsed')
    /\ pc' = "news_fetch"
    /\ UNCHANGED <<env, llm, message, classification, intent, qi, fetched, output, nr,
                   firstOut, firstNr, fin, ret, pin, pout>>

\* news_researcher.py, lines 33-44
report_queries(company_name, keywords) ==
    (IF keywords # <<>> THEN <<company_name \o " " \o Join(keywords, " ")>> ELSE <<>>)
    \o << company_name \o " headquarters location corporate HQ",
          company_name \o " CEO leadership executives founders",
          company_name \o " employee count headcount employees",
          company_name \o " company overview founded",
          company_name \o " product launch pricing plans",
          company_name \o " partnership acquisition layoff reorg press release",
          company_name \o " press release newsroom",
          company_name \o " news 2024 2025" >>

\* news_researcher.py, lines 49-53: the results of one query, de-duplicated by url
RECURSIVE AddSources(_, _)
\* a loop that appends every result it is given
AddSourcesAll(sources, found) == sources \o found

AddSources(sources, found) ==
    IF found = <<>> THEN sources
    ELSE IF \E i \in 1..Len(sources) : sources[i].url = Head(found).url
    THEN AddSources(sources, Tail(found))
    ELSE AddSources(Append(sources, Head(found)), Tail(found))

\* a second pass that searches with the four fixed keywords alone
second_keywords_fixed_only == <<"CEO", "headcount", "headquarters", "founded">>

\* line 536
second_keywords == parsed.keywords \o <<"CEO", "headcount", "headquarters", "founded">>

\* one turn of the loop of _serper_report_sources, for the task being built;
\* qi queries are done, and before the first one sources is empty (line 46)
SearchStep(at, keywords, next) ==
    /\ pc = at
    /\ LET queries == report_queries(parsed.competitor_name, keywords)
           sources == IF qi = 0 THEN <<>> ELSE fetched
       IN
       /\ events' = Append(events, "search")
       /\ \E o \in SearchOutcomes :
            IF o.call = "raised"
            THEN Raise(SearchFailed(queries[qi + 1])) /\ UNCHANGED <<qi, fetched>>
            ELSE /\ fetched' = AddSources(sources, o.value)
                 /\ qi' = IF qi + 1 = Len(queries) THEN 0 ELSE qi + 1
                 /\ pc' = IF qi + 1 = Len(queries) THEN next ELSE at
                 /\ ret' = ret
    /\ UNCHANGED <<env, llm, message, classification, intent, parsed, state, output,
                   nr, firstOut, firstNr, fin, pin, pout>>

\* build_news_task(mode="report_research"), lines 490-495
NewsSearch == SearchStep("news_fetch", parsed.keywords, "news_kickoff")

\* build_news_task of the second pass, lines 537-541
News2Search == SearchStep("news2_fetch", second_keywords, "news2_kickoff")

recover_news_no_raw(out) ==
    IF ~IsNone(out.pydantic) THEN Ok(out.pydantic)
    ELSE Raised("RuntimeError",
                "NewsResearchResult parsing failed (task.output.pydantic is None). "
                \o "Enable CREW_VERBOSE=1 to inspect agent output.")

recover_news_default(out) ==
    IF ~IsNone(out.pydantic) THEN Ok(out.pydantic)
    ELSE IF IsText(out.raw)
    THEN LET v == NewsResearchResult_model_validate_json(out.raw) IN
         IF v.ok THEN v ELSE Ok(newsThree)
    ELSE Ok(newsThree)

\* lines 506-532: the NewsResearchResult of the first pass, or the RuntimeError
recover_news(out) ==
    IF ~IsNone(out.pydantic) THEN Ok(out.pydantic)
    ELSE IF IsText(out.raw)
    THEN LET v == NewsResearchResult_model_validate_json(out.raw) IN
         IF v.ok THEN v
         ELSE Raised("RuntimeError",
                     "NewsResearchResult parsing failed (task.output.pydantic is None). "
                     \o "Raw output could not be validated against schema.")
    ELSE Raised("RuntimeError",
                "NewsResearchResult parsing failed (task.output.pydantic is None). "
                \o "Enable CREW_VERBOSE=1 to inspect agent output.")

recover_financial_skip(out) ==
    IF ~IsNone(out.pydantic) THEN Ok(out.pydantic)
    ELSE IF IsText(out.raw)
    THEN LET v == FinancialAnalysisResult_model_validate_json(out.raw) IN
         IF v.ok THEN v ELSE Ok([financial_overview |-> NoneV, sources |-> <<>>])
    ELSE Ok([financial_overview |-> NoneV, sources |-> <<>>])

\* lines 570-592
recover_financial(out) ==
    IF ~IsNone(out.pydantic) THEN Ok(out.pydantic)
    ELSE IF IsText(out.raw)
    THEN LET v == FinancialAnalysisResult_model_validate_json(out.raw) IN
         IF v.ok THEN v
         ELSE Raised("RuntimeError",
                     "FinancialAnalysisResult parsing failed (task.output.pydantic is None).")
    ELSE Raised("RuntimeError",
                "FinancialAnalysisResult parsing failed (task.output.pydantic is None).")

recover_report_no_raw(out) ==
    IF ~IsNone(out.pydantic) THEN Ok(out.pydantic)
    ELSE Raised("RuntimeError", "ReportMemo parsing failed (task.output.pydantic is None).")

\* lines 607-625
recover_report(out) ==
    IF ~IsNone(out.pydantic) THEN Ok(out.pydantic)
    ELSE IF IsText(out.raw)
    THEN LET v == ReportMemo_model_validate_json(out.raw) IN
         IF v.ok THEN v
         ELSE Raised("RuntimeError", "ReportMemo parsing failed (task.output.pydantic is None).")
    ELSE Raised("RuntimeError", "ReportMemo parsing failed (task.output.pydantic is None).")

\* a second pass whose result is dropped for the one of the first pass
second_result_of_first_pass(out) == firstNr

\* line 549: the result of the second pass is taken as it is
second_result(out) == out.pydantic

\* lines 551-554
WriteNews(st, res) ==
    [st EXCEPT !.company_overview = res.company_overview,
               !.recent_developments = res.recent_developments,
               !.products_pricing = res.products_pricing,
               !.sources = @ \o res.sources]

\* a financial step that assigns its sources instead of extending the list
WriteFinancialReplacing(st, fa) ==
    [st EXCEPT !.financial_overview = fa.financial_overview,
               !.sources = fa.sources]

\* lines 594-595
WriteFinancial(st, fa) ==
    [st EXCEPT !.financial_overview = fa.financial_overview,
               !.sources = @ \o fa.sources]

AfterNewsPcReport == "report_kickoff"

\* where the workflow goes once the news fields are written (line 556)
AfterNewsPc == "fin_start"

AfterSecondPassPcLoop(res) ==
    IF _needs_second_search(res) THEN "news2_fetch" ELSE AfterNewsPc

\* a workflow that searches once more when the second pass is incomplete too
AfterSecondPassOnceMore(res) ==
    IF _needs_second_search(res) /\ Count("news2") < 1 THEN "news2_fetch" ELSE AfterNewsPc

\* where the workflow goes after the second pass (lines 549-556): no re-check
AfterSecondPassPc(res) == AfterNewsPc

\* where the workflow goes once the financial fields are written (line 597)
AfterFinPc == "report_kickoff"

\* lines 497-534, and 551-554 when no second search is needed
NewsKickoff ==
    /\ pc = "news_kickoff"
    /\ events' = Append(events, "news")
    /\ \/ Raise(KickoffFailed) /\ UNCHANGED <<output, firstOut, nr, firstNr, state>>
       \/ \E out \in NewsOutputs :
            LET r == recover_news(out) IN
            /\ output' = out
            /\ firstOut' = out
            /\ IF IsRaised(r)
               THEN Raise(r) /\ UNCHANGED <<nr, firstNr, state>>
               ELSE /\ nr' = r.v
                    /\ firstNr' = r.v
                    /\ ret' = ret
                    /\ IF _needs_second_search(r.v)
                       THEN /\ pc' = "news2_fetch"
                            /\ state' = state
                       ELSE /\ pc' = AfterNewsPc
                            /\ state' = WriteNews(state, r.v)
    /\ UNCHANGED <<env, llm, message, classification, intent, parsed, qi, fetched,
                   fin, pin, pout>>

\* lines 542-554: the second pass
News2Kickoff ==
    /\ pc = "news2_kickoff"
    /\ events' = Append(events, "news2")
    /\ \/ Raise(KickoffFailed) /\ UNCHANGED <<output, nr, state>>
       \/ \E out \in NewsOutputs :
            /\ output' = out
            /\ nr' = second_result(out)
            /\ IF IsNone(nr')
               THEN /\ Raise(Raised("AttributeError",
                        "'NoneType' object has no attribute 'company_overview'"))
                    /\ state' = state
               ELSE /\ state' = WriteNews(state, nr')
                    /\ pc' = AfterSecondPassPc(nr')
                    /\ ret' = ret
    /\ UNCHANGED <<env, llm, message, classification, intent, parsed, qi, fetched,
                   firstOut, firstNr, fin, pin, pout>>

(***************************************************************************)
(* financial_analyst.py: the data fetch of build_financial_task            *)
(***************************************************************************)
\* one entry of bestMatches: "1. symbol", "3. type", "4. region", "9. matchScore"
Match(symbol, type, region, score) ==
    [symbol |-> symbol, type |-> type, region |-> region, matchScore |-> score]

is_us_equity(m) == Lower(Strip(m.type)) = "equity" /\ Lower(Strip(m.region)) = "united states"

is_plain_symbol(m) ==
    LET sym == Strip(m.symbol) IN sym # "" /\ ~Contains(sym, ".") /\ ~Contains(sym, "/")

\* a sort key that looks at the matchScore before anything else
RankKeyScoreFirst(m) ==
    <<0 - m.matchScore, IF is_us_equity(m) THEN 0 ELSE 1,
      IF is_plain_symbol(m) THEN 0 ELSE 1>>

\* the sort key of line 67, as a tuple compared left to right
RankKey(m) ==
    <<IF is_us_equity(m) THEN 0 ELSE 1, IF is_plain_symbol(m) THEN 0 ELSE 1,
      0 - m.matchScore>>

KeyLess(a, b) ==
    \/ a[1] < b[1]
    \/ a[1] = b[1] /\ a[2] < b[2]
    \/ a[1] = b[1] /\ a[2] = b[2] /\ a[3] < b[3]

\* _resolve_ticker once symbol_search has returned: sorted() is stable, so
\* ranked[0] is the first match no other match ranks before
_resolve_ticker(matches) ==
    IF matches = <<>> THEN NoneV
    ELSE LET top == Min({i \in 1..Len(matches) :
                           \A k \in 1..Len(matches) :
                              ~KeyLess(RankKey(matches[k]), RankKey(matches[i]))})
             \* lines 75-76: a match with no symbol gives str(None)
             symbol == IF matches[top].symbol = "" THEN "None"
                       ELSE Strip(matches[top].symbol)
         IN  IF symbol = "" THEN NoneV ELSE Some(symbol)

matchUs == Match("NVDA", "Equity", "United States", 8)

matchForeign == Match("NVD.FRK", "Equity", "Frankfurt", 9)

SymbolMatches == {<<>>, <<matchForeign, matchUs>>}

FetchFailed == Raised("AlphaVantageError", "Alpha Vantage request failed")

\* what a call of the AlphaVantageClient can do: fail after its retries, or
\* hand back the provider's data
FinOutcomes == {"failed", "data"}

\* lines 84-100: the client, the ticker, and the symbol search when there is none
FinStart ==
    /\ pc = "fin_start"
    /\ IF ~env.alpha
       THEN /\ Raise(Raised("AlphaVantageError", "ALPHAVANTAGE_API_KEY is required"))
            /\ UNCHANGED <<events, fin>>
       ELSE IF ~IsNone(parsed.ticker) /\ parsed.ticker.some # ""
       THEN /\ fin' = [resolved |-> parsed.ticker, searched |-> FALSE]
            /\ pc' = "fin_overview"
            /\ UNCHANGED <<events, ret>>
       ELSE /\ events' = Append(events, "fin_call")
            /\ \/ Raise(FetchFailed) /\ fin' = fin
               \/ \E matches \in SymbolMatches :
                    /\ fin' = [resolved |-> _resolve_ticker(matches), searched |-> TRUE]
                    /\ pc' = IF IsNone(fin'.resolved) THEN "fin_kickoff" ELSE "fin_overview"
                    /\ ret' = ret
    /\ UNCHANGED <<env, llm, message, classification, intent, parsed, state, qi,
                   fetched, output, nr, firstOut, firstNr, pin, pout>>

\* a call of the client that the fetch cannot do without (lines 102-103)
FinCall(at, next) ==
    /\ pc = at
    /\ events' = Append(events, "fin_call")
    /\ \E o \in FinOutcomes :
         IF o = "failed" THEN Raise(FetchFailed) ELSE pc' = next /\ ret' = ret
    /\ UNCHANGED <<env, llm, message, classification, intent, parsed, state, qi,
                   fetched, output, nr, firstOut, firstNr, fin, pin, pout>>

\* client.overview(resolved)
FinOverview == FinCall("fin_overview", "fin_income")

\* client.income_statement(resolved)
FinIncome == FinCall("fin_income", "fin_series")

\* lines 131-144: the daily series; its failure is caught
FinSeries ==
    /\ pc = "fin_series"
    /\ events' = Append(events, "fin_call")
    /\ pc' = "fin_kickoff"
    /\ UNCHANGED <<env, llm, message, classification, intent, parsed, state, qi,
                   fetched, output, nr, firstOut, firstNr, fin, ret, pin, pout>>

\* lines 562-598
FinKickoff ==
    /\ pc = "fin_kickoff"
    /\ events' = Append(events, "financial")
    /\ \/ Raise(KickoffFailed) /\ UNCHANGED <<output, state>>
       \/ \E out \in FinancialOutputs :
            LET fa == recover_financial(out) IN
            /\ output' = out
            /\ IF IsRaised(fa)
               THEN Raise(fa) /\ state' = state
               ELSE /\ state' = WriteFinancial(state, fa.v)
                    /\ pc' = AfterFinPc
                    /\ ret' = ret
    /\ UNCHANGED <<env, llm, message, classification, intent, parsed, qi, fetched,
                   nr, firstOut, firstNr, fin, pin, pout>>

\* lines 599-628
ReportKickoff ==
    /\ pc = "report_kickoff"
    /\ events' = Append(events, "report")
    /\ \/ Raise(KickoffFailed) /\ output' = output
       \/ \E out \in ReportOutputs :
            LET report == recover_report(out) IN
            /\ output' = out
            /\ IF IsRaised(report)
               THEN Raise(report)
               ELSE /\ ret' = ManagerResult(state, render_markdown(report.v))
                    /\ pc' = "done"
    /\ UNCHANGED <<env, llm, message, classification, intent, parsed, state, qi,
                   fetched, nr, firstOut, firstNr, fin, pin, pout>>

Next ==
    \/ Chat
    \/ DomainGate
    \/ Route
    \/ QuickBuild
    \/ QuickKickoff
    \/ ParsePrompt
    \/ NewsSearch
    \/ NewsKickoff
    \/ News2Search
    \/ News2Kickoff
    \/ FinStart
    \/ FinOverview
    \/ FinIncome
    \/ FinSeries
    \/ FinKickoff
    \/ ReportKickoff

Spec == Init /\ [][Next]_vars

(***************************************************************************)
(* The completeness checker on its own: every combination of the four      *)
(* signals, applied once.                                                  *)
(***************************************************************************)
\* the longest executives list among the inputs
MaxExecutives == 1

DescriptionInputs == {"", "  ", "unknown", " N/A ", "n/a", "Acme makes rockets"}

FoundedInputs == {"unknown", " UNKNOWN ", "2002", "", "n/a"}

HqInputs == {"unknown", "Unknown", "Austin", ""}

ExecutiveInputs ==
    UNION {[1..n -> {"Jane Roe", "unknown"}] : n \in 0..MaxExecutives}

\* the workflow is not running
Parked ==
    /\ pc = "pure"
    /\ env = NoneV /\ llm = "none" /\ message = ""
    /\ classification = NoneV /\ intent = "none" /\ parsed = NoneV /\ state = NoneV
    /\ qi = 0 /\ fetched = <<>> /\ output = NoneV /\ nr = NoneV
    /\ firstOut = NoneV /\ firstNr = NoneV /\ events = <<>> /\ fin = NoneV
    /\ ret = Pending

wfVars ==
    <<pc, env, llm, message, classification, intent, parsed, state, qi, fetched,
      output, nr, firstOut, firstNr, events, fin, ret>>

InitNeeds ==
    /\ Parked
    /\ pin \in {NewsResearchResult(CompanyOverview(d, f, h, e), <<>>) :
                  d \in DescriptionInputs, f \in FoundedInputs, h \in HqInputs,
                  e \in ExecutiveInputs}
    /\ pout = NoneV

ApplyNeeds ==
    /\ pout = NoneV
    /\ pout' = [value |-> _needs_second_search(pin)]
    /\ UNCHANGED <<pin, wfVars>>

NextNeeds == ApplyNeeds

SpecNeeds == InitNeeds /\ [][NextNeeds]_vars

(***************************************************************************)
(* Properties of the workflow                                              *)
(***************************************************************************)
\* the calls that cost something: searches, provider calls, Crew kickoffs
Paid == {"search", "fin_call"} \cup Kickoffs

LastStep == IF Steps = <<>> THEN "none" ELSE Steps[Len(Steps)]

\* the last kickoff came back with a task output
Produced == ret # Failed(KickoffFailed)

RuntimeErrorNaming(type) ==
    /\ pc = "done"
    /\ ret.kind = "raised"
    /\ ret.exc = "RuntimeError"
    /\ Contains(ret.msg, type)

\* C1: whenever the gate classifies the message as out_of_domain, the request
\* is over, its document is the fixed refusal sentence, and no search, no
\* provider call and no Crew kickoff has happened or can still happen.
C1_RefusalWithoutSteps ==
    (classification # NoneV /\ classification.domain = "out_of_domain")
        => /\ pc = "done"
           /\ ret.kind = "returned"
           /\ ret.memo_markdown = fixed
           /\ \A i \in 1..Len(events) : events[i] \notin Paid

C1_Witness ==
    /\ classification # NoneV
    /\ classification.domain = "out_of_domain"
    /\ message = "Who is the CEO of Tesla?"
    /\ ret.kind = "returned"

\* C2: every search call, provider call and Crew kickoff of a request comes
\* after the completed decision of the domain gate.
C2_GateFirst ==
    \A i \in 1..Len(events) :
        events[i] \in Paid => \E j \in 1..(i - 1) : events[j] = "gate_done"

C2_Witness ==
    /\ \E i \in 1..Len(events) : events[i] = "search"
    /\ \E i \in 1..Len(events) : events[i] = "fin_call"
    /\ \E i \in 1..Len(events) : events[i] = "report"

\* the stage of the full-report path an event belongs to
Stage(e) ==
    CASE e \in {"search", "news", "news2"} -> 1
      [] e \in {"fin_call", "financial"} -> 2
      [] e = "report" -> 3
      [] OTHER -> 0

\* C3: on the full-report path the stages run one after the other: nothing of
\* the news stage (searches, first and second pass) happens after something
\* of the financial stage (provider calls, kickoff), nothing of either after
\* the report; the financial stage starts only when the last thing the news
\* stage did was a completed kickoff, and the report only after the
\* financial kickoff; no step is kicked off twice.
C3_Sequential ==
    intent = "full_report" =>
        /\ \A i, j \in 1..Len(events) :
             (i < j /\ Stage(events[i]) > 0 /\ Stage(events[j]) > 0)
                 => Stage(events[i]) <= Stage(events[j])
        /\ \A i \in 1..Len(events) :
             Stage(events[i]) = 2 =>
                 \E j \in 1..(i - 1) :
                     /\ events[j] \in {"news", "news2"}
                     /\ \A k \in (j + 1)..(i - 1) : Stage(events[k]) # 1
        /\ \A i \in 1..Len(events) :
             events[i] = "report" => \E j \in 1..(i - 1) : events[j] = "financial"
        /\ \A i, j \in 1..Len(events) :
             (i < j /\ events[i] = "financial") => events[j] # "fin_call"
        /\ \A i, j \in 1..Len(events) :
             (i < j /\ events[i] = "news2") => events[j] # "news"
        /\ \A k \in Kickoffs : Count(k) <= 1

C3_Witness ==
    /\ intent = "full_report"
    /\ Steps = <<"news", "news2", "financial", "report">>
    /\ Count("fin_call") = 4

\* C4: the News Research step is kicked off at most twice in a request, once
\* as the first pass and at most once as the second; whatever the second
\* pass returns, the workflow goes on to the financial stage.
C4_AtMostTwoNewsPasses ==
    /\ Count("news") <= 1
    /\ Count("news2") <= 1
    /\ Count("news") + Count("news2") <= 2
    /\ (LastStep = "news2" /\ ret = Pending) =>
          pc \in {"fin_start", "fin_overview", "fin_income", "fin_series", "fin_kickoff"}

C4_Witness ==
    /\ LastStep = "news2"
    /\ ~IsNone(nr)
    /\ _needs_second_search(nr)
    /\ pc = "fin_start"

\* the tracked signals of a result that are missing or unknown
MissingSignals(res) ==
    {f \in {"description", "founded", "hq_location", "executives"} :
        \/ f = "description" /\ description_missing(res.company_overview)
        \/ f = "founded" /\ founded_missing(res.company_overview)
        \/ f = "hq_location" /\ hq_location_missing(res.company_overview)
        \/ f = "executives" /\ executives_missing(res.company_overview)}

C6_ThreeOrFourSteps ==
    (intent = "full_report" /\ ret.kind = "returned") =>
        Steps = IF Cardinality(MissingSignals(firstNr)) >= 3
                THEN <<"news", "news2", "financial", "report">>
                ELSE <<"news", "financial", "report">>

C6_Witness ==
    /\ intent = "full_report"
    /\ ret.kind = "returned"
    /\ Cardinality(MissingSignals(firstNr)) = 2
    /\ Len(Steps) = 3

\* the raw text of a task output validates as a NewsResearchResult
NewsRawValid(out) ==
    IsText(out.raw) /\ NewsResearchResult_model_validate_json(out.raw).ok

\* the workflow goes on from the first news pass with the result v
ContinuesWith(v) ==
    /\ nr' = v
    /\ firstNr' = v
    /\ ret' = ret
    /\ IF Cardinality(MissingSignals(v)) >= 3
       THEN pc' = "news2_fetch" /\ state' = state
       ELSE pc' = "fin_start" /\ state' = WriteNews(state, v)

\* C7: when the first news pass comes back without a typed result and its
\* raw text validates as a NewsResearchResult, the workflow goes on with the
\* validated value exactly as it goes on with a typed result.
C7_RecoversFromRaw ==
    [][(pc = "news_kickoff" /\ firstOut' # NoneV) =>
          /\ ~IsNone(firstOut'.pydantic) => ContinuesWith(firstOut'.pydantic)
          /\ (IsNone(firstOut'.pydantic) /\ NewsRawValid(firstOut'))
                => ContinuesWith(NewsResearchResult_model_validate_json(firstOut'.raw).v)
      ]_vars

C7_Witness ==
    /\ firstOut # NoneV
    /\ IsNone(firstOut.pydantic)
    /\ NewsRawValid(firstOut)
    /\ ret.kind = "returned"
    /\ LastStep = "report"

\* C8: when the first news pass comes back without a typed result and its
\* raw text is absent or does not validate, the request ends with a
\* RuntimeError naming NewsResearchResult, and no provider call, financial
\* kickoff or report kickoff happens.
C8_FatalWithoutRaw ==
    (firstOut # NoneV /\ IsNone(firstOut.pydantic) /\ ~NewsRawValid(firstOut)) =>
        /\ RuntimeErrorNaming("NewsResearchResult")
        /\ \A i \in 1..Len(events) : events[i] \notin {"fin_call", "financial", "report"}

C8_Witness ==
    /\ firstOut # NoneV
    /\ IsNone(firstOut.pydantic)
    /\ firstOut.raw = rawNewsBad
    /\ ret.kind = "raised"

\* C9: the second news pass is validated like the first: when it comes back
\* without a typed result, the workflow either goes on with the value
\* validated from the raw text or ends with the RuntimeError naming
\* NewsResearchResult; the absent result is not dereferenced.
C9_SecondPassValidated ==
    (LastStep = "news2" /\ Produced /\ IsNone(output.pydantic)) =>
        IF NewsRawValid(output)
        THEN /\ ret.kind = "raised" => ret.exc # "AttributeError"
             /\ nr = NewsResearchResult_model_validate_json(output.raw).v
        ELSE RuntimeErrorNaming("NewsResearchResult")

FinRawValid(out) ==
    IsText(out.raw) /\ FinancialAnalysisResult_model_validate_json(out.raw).ok

ReportRawValid(out) ==
    IsText(out.raw) /\ ReportMemo_model_validate_json(out.raw).ok

FinancialUsed(v) ==
    /\ ret = Pending
    /\ pc = "report_kickoff"
    /\ state.financial_overview = v.financial_overview

ReportUsed(v) ==
    /\ pc = "done"
    /\ ret.kind = "returned"
    /\ ret.memo_markdown = render_markdown(v)

\* C10: the financial and the report step treat their output as the first
\* news pass does: a typed result is used, an absent one is recovered from a
\* raw text that validates, and otherwise the request ends with a
\* RuntimeError naming FinancialAnalysisResult or ReportMemo.
C10_FinancialAndReportRecover ==
    /\ (LastStep = "financial" /\ Produced /\ ~IsNone(output.pydantic)) =>
          FinancialUsed(output.pydantic)
    /\ (LastStep = "financial" /\ Produced /\ IsNone(output.pydantic)) =>
          IF FinRawValid(output)
          THEN FinancialUsed(FinancialAnalysisResult_model_validate_json(output.raw).v)
          ELSE RuntimeErrorNaming("FinancialAnalysisResult")
    /\ (LastStep = "report" /\ Produced /\ ~IsNone(output.pydantic)) =>
          ReportUsed(output.pydantic)
    /\ (LastStep = "report" /\ Produced /\ IsNone(output.pydantic)) =>
          IF ReportRawValid(output)
          THEN ReportUsed(ReportMemo_model_validate_json(output.raw).v)
          ELSE RuntimeErrorNaming("ReportMemo")

C10_Witness ==
    /\ LastStep = "report"
    /\ IsNone(output.pydantic)
    /\ ReportRawValid(output)
    /\ ret.kind = "returned"
    /\ state.financial_overview # NoneV
    /\ \E i \in 1..Len(events) : events[i] = "financial"

\* C11: a full-report request returns a document only when the news,
\* financial and report steps have each produced a typed or recovered
\* result: the three kickoffs happened, the state holds the news and the
\* financial fields, and the document is the rendering of the report; a
\* request that is over without that has ended with an exception.
C11_NoPartialMemo ==
    /\ (intent = "full_report" /\ pc = "done") => ret.kind \in {"returned", "raised"}
    /\ (intent = "full_report" /\ ret.kind = "returned") =>
          /\ \A k \in {"news", "financial", "report"} : Count(k) = 1
          /\ ~IsNone(firstOut.pydantic) \/ NewsRawValid(firstOut)
          /\ ~IsNone(nr)
          /\ state.company_overview = nr.company_overview
          /\ state.financial_overview # NoneV
          /\ ~IsNone(output.pydantic) \/ ReportRawValid(output)
          /\ ret.state = state
          /\ ret.memo_markdown =
                render_markdown(IF ~IsNone(output.pydantic) THEN output.pydantic
                                ELSE ReportMemo_model_validate_json(output.raw).v)

C11_Witness ==
    /\ intent = "full_report"
    /\ LastStep = "financial"
    /\ Produced
    /\ IsNone(output.pydantic)
    /\ ~FinRawValid(output)
    /\ pc = "done"
    /\ ret.kind = "raised"

\* C12: no step is kicked off again after its output failed validation: the
\* quick-answer, financial and report steps, and each news pass, are kicked
\* off at most once; a request that ended on a validation failure did
\* nothing after the kickoff of the failed step; and the second news pass
\* (its searches included) happens only after a first result that was
\* typed or recovered and has at least three missing signals.
C12_NoRetryOnValidationFailure ==
    /\ \A k \in Kickoffs : Count(k) <= 1
    /\ (ret.kind = "raised" /\ Produced /\ Steps # <<>>
          /\ ret.exc \in {"RuntimeError", "ValidationError", "AttributeError"})
          => /\ pc = "done"
             /\ events[Len(events)] = LastStep
    /\ \A i, j \in 1..Len(events) :
          (i < j /\ events[i] = "news" /\ events[j] \in {"search", "news2"})
              => /\ ~IsNone(firstNr)
                 /\ ~IsNone(firstOut.pydantic) \/ NewsRawValid(firstOut)
                 /\ Cardinality(MissingSignals(firstNr)) >= 3

C12_Witness ==
    /\ LastStep = "quick"
    /\ Produced
    /\ IsNone(output.pydantic)
    /\ ret.kind = "raised"
    /\ ret.exc = "ValidationError"
    /\ pc = "done"

\* C13: when the call of the text provider in the domain gate raises, the
\* classification is in_domain and the workflow goes on to intent routing
\* and the selected path: the request is neither refused nor failed by the
\* gate.
C13_GateFailsOpen ==
    (\E i \in 1..Len(events) : events[i] = "gate_call_failed") =>
        /\ classification # NoneV
        /\ classification.domain = "in_domain"
        /\ \E i \in 1..Len(events) : events[i] = "gate_done"
        /\ pc = "route" \/ intent \in {"quick_answer", "full_report"}
        /\ pc = "route" => ret = Pending
        /\ ret.kind = "returned" => ret.memo_markdown # fixed

C13_Witness ==
    /\ \E i \in 1..Len(events) : events[i] = "gate_call_failed"
    /\ intent = "quick_answer"
    /\ LastStep = "quick"
    /\ ret.kind = "returned"

\* the calls of the text provider made by the domain gate
GateCalls ==
    {i \in 1..Len(events) :
        /\ events[i] = "llm_call"
        /\ \A j \in 1..(i - 1) : events[j] # "gate_done"}

\* C16: the domain gate calls the text provider at most once, and not at
\* all when no text provider is supplied: it then answers in_domain at once.
C16_GateCallsAtMostOnce ==
    /\ Cardinality(GateCalls) <= 1
    /\ llm = "none" =>
          /\ GateCalls = {}
          /\ (\E i \in 1..Len(events) : events[i] = "gate_done") =>
                classification =
                    Classification("in_domain", "business_question", "llm_missing")

C16_Witness ==
    /\ llm = "none"
    /\ classification # NoneV
    /\ events = <<"gate_done">>
    /\ pc = "route"

(***************************************************************************)
(* The domain gate on its own: classify_domain on every shape of reply,    *)
(* and what run_manager_workflow does with the classification.             *)
(***************************************************************************)
\* json.dumps of a loaded value
RECURSIVE Dumps(_)
Dumps(j) ==
    CASE j.t = "str" -> "\"" \o j.s \o "\""
      [] j.t = "num" -> NatStr(j.n)
      [] j.t = "null" -> "null"
      [] j.t = "list" -> "[" \o Join([i \in 1..Len(j.l) |-> Dumps(j.l[i])], ", ") \o "]"
      [] j.t = "dict" ->
           LET keys == SelectSeq(<<"domain", "category", "reason">>,
                                 LAMBDA k : k \in DOMAIN j.d)
           IN  "{" \o Join([i \in 1..Len(keys) |->
                               "\"" \o keys[i] \o "\": " \o Dumps(j.d[keys[i]])], ", ")
                   \o "}"

\* a text that json.loads loads as j
Loaded(j) == Text(Dumps(j), j)

\* what the text provider may put under a key of its answer
GateValues ==
    {JStr("in_domain"), JStr("out_of_domain"), JStr("maybe"), JStr("recipe"),
     JStr("x"), JStr(" "), JNum(5), JNull, JList(<<JStr("in_domain")>>)}

GateDicts ==
    {JDict(d) : d \in UNION {[K -> GateValues] :
                               K \in SUBSET {"domain", "category", "reason"}}}

GateInputs ==
    {CallRaised, CallReturned(NoneV), CallReturned(Text("", NotJson)),
     CallReturned(Text(" \n ", NotJson)), CallReturned(rawProse),
     CallReturned(Text("{\"domain\": \"in_domain\"", NotJson))}
    \cup {CallReturned(Loaded(j)) :
            j \in {JNum(5), JStr("in_domain"), JNull, JList(<<JStr("in_domain")>>)}}
    \cup {CallReturned(Loaded(j)) : j \in GateDicts}

InitGate ==
    /\ Parked
    /\ pin \in [user_message : {"How do I become a CEO?"}, l : {"llm", "none"},
                reply : GateInputs]
    /\ pout = NoneV

\* lines 449-461 on their own: the classification, and what the workflow
\* does with it
ApplyGate ==
    /\ pout = NoneV
    /\ LET c == classify_domain(pin.user_message, pin.l, pin.reply) IN
       pout' = [classification |-> c,
                result |-> IF IsRaised(c) THEN Failed(c)
                           ELSE IF GateRejects(c)
                           THEN ManagerResult(ManagerState("unknown", UnknownPrompt), fixed)
                           ELSE Pending]
    /\ UNCHANGED <<pin, wfVars>>

NextGate == ApplyGate

SpecGate == InitGate /\ [][NextGate]_vars

\* the text provider returned, and what it returned is not a str, is blank,
\* or is not JSON
UnusableReply(reply) ==
    /\ reply.call = "returned"
    /\ \/ ~IsText(reply.value)
       \/ Strip(reply.value.s) = ""
       \/ reply.value.json = NotJson

\* C14: when the text provider returns something that is not a str, is empty
\* or blank, or is not JSON, classify_domain answers out_of_domain with
\* category other, and the workflow returns the refusal.
C14_GateFailsClosed ==
    (pout # NoneV /\ pin.l = "llm" /\ UnusableReply(pin.reply)) =>
        /\ ~IsRaised(pout.classification)
        /\ pout.classification.domain = "out_of_domain"
        /\ pout.classification.category = "other"
        /\ pout.result.kind = "returned"
        /\ pout.result.memo_markdown = fixed

C14_Witness ==
    /\ pout # NoneV
    /\ pin.l = "llm"
    /\ pin.reply = CallReturned(Text("{\"domain\": \"in_domain\"", NotJson))
    /\ pout.result.kind = "returned"

\* C15: whatever the text provider returns, classify_domain does not raise:
\* it answers a record whose domain is in_domain or out_of_domain, whose
\* category is one of the nine categories and whose reason is a non-blank
\* string.
C15_GateNeverRaises ==
    pout # NoneV =>
        /\ ~IsRaised(pout.classification)
        /\ pout.classification.domain \in {"in_domain", "out_of_domain"}
        /\ pout.classification.category \in
              {"company_research", "financial_metric", "stock_market",
               "executive_lookup", "business_question", "life_advice", "recipe",
               "health", "other"}
        /\ Strip(pout.classification.reason) # ""

(***************************************************************************)
(* The intent classifier on its own: detect_intent on messages put         *)
(* together from an opening, a subject, an ending and a closing mark.      *)
(***************************************************************************)
RECURSIVE Pad(_)
Pad(n) ==
    IF n <= 0 THEN ""
    ELSE IF n % 2 = 0 THEN LET half == Pad(n \div 2) IN half \o half
    ELSE "x" \o Pad(n - 1)

\* a subject of n characters that holds a lookup term
LongSubject(n) == "ceo " \o Pad(n - 4)

\* the openings, each with the words it is made of
Openings ==
    {[text |-> "", form |-> ""],
     [text |-> "Who is ", form |-> "who is"],
     [text |-> "  who  is\t", form |-> "who is"],
     [text |-> "who are ", form |-> "who are"],
     [text |-> "WHO FOUNDED ", form |-> "who founded"],
     [text |-> "Who owns ", form |-> "who owns"],
     [text |-> "What is ", form |-> "what is"],
     [text |-> "What does ", form |-> "what does"],
     [text |-> "Where is ", form |-> "where is"],
     [text |-> "When was ", form |-> "when was"],
     [text |-> "How many employees does ", form |-> "how many employees does"],
     [text |-> "How much is ", form |-> "how much is"],
     [text |-> "How many ", form |-> "how many"],
     [text |-> "Tell me about ", form |-> "tell me about"],
     [text |-> "Whois ", form |-> "whois"]}

Subjects == {"", "Acme", "the CEO of Tesla", "a reporter", "Acme SWOT", "Acme revenue"}

\* subjects that bring the message to the length where the heuristic stops
LongSubjects ==
    {LongSubject(IntentMaxLen - 2), LongSubject(IntentMaxLen - 1),
     LongSubject(IntentMaxLen)}

Endings ==
    {"", " do", " make", " headquartered", " based", " founded", " have", " worth"}

ClosingMarks == {"", "?", " ?", "??"}

\* the message of an input
MessageOf(in) == in.opening.text \o in.subject \o in.ending \o in.mark

InitIntent ==
    /\ Parked
    /\ pin \in [opening : Openings, subject : Subjects, ending : Endings,
                mark : ClosingMarks]
               \cup [opening : {o \in Openings : o.form \in {"", "how many"}},
                     subject : LongSubjects, ending : {""}, mark : {"", "?"}]
    /\ pout = NoneV

ApplyIntent ==
    /\ pout = NoneV
    /\ pout' = [value |-> detect_intent(MessageOf(pin))]
    /\ UNCHANGED <<pin, wfVars>>

NextIntent == ApplyIntent

SpecIntent == InitIntent /\ [][NextIntent]_vars

\* the message as detect_intent looks at it
Normalised == Lower(Strip(MessageOf(pin)))

HasTrigger ==
    \E kw \in {"research", "competitor", "analysis", "analyze", "market report", "swot",
               "pricing analysis", "write a memo", "memo", "report"} :
        Contains(Normalised, kw)

\* C17: a message that contains a full-report trigger phrase is a
\* full_report, whatever else it matches.
C17_TriggerOverrides ==
    (pout # NoneV /\ HasTrigger) => pout.value = "full_report"

C17_Witness ==
    /\ pout # NoneV
    /\ HasTrigger
    /\ MatchesQuickPattern(Normalised)
    /\ LookupHeuristic(Normalised)
    /\ pout.value = "full_report"

\* the quick-question templates: the words of the opening and the ending
TemplateForms ==
    {<<"who is", "">>, <<"who are", "">>, <<"who founded", "">>, <<"who owns", "">>,
     <<"what is", "">>, <<"what does", " do">>, <<"what does", " make">>,
     <<"where is", " headquartered">>, <<"where is", " based">>,
     <<"when was", " founded">>, <<"how many employees does", " have">>,
     <<"how much is", " worth">>}

\* the input is a quick-question template around a subject, with or
\* without one closing question mark
IsTemplate ==
    /\ <<pin.opening.form, pin.ending>> \in TemplateForms
    /\ Strip(pin.subject) # ""
    /\ pin.mark \in {"", "?"}

\* C18: a message without a trigger phrase that is one of the quick-question
\* templates, with or without the closing '?', is a quick_answer.
C18_TemplatesAreQuick ==
    (pout # NoneV /\ ~HasTrigger /\ IsTemplate) => pout.value = "quick_answer"

C18_Witness ==
    /\ pout # NoneV
    /\ ~HasTrigger
    /\ IsTemplate
    /\ pin.opening.form = "how much is"
    /\ pin.mark = ""
    /\ ~LookupHeuristic(Normalised)
    /\ pout.value = "quick_answer"

\* short, a lookup term, and a '?' or a question word at the start
ShortLookupQuestion ==
    /\ Len(Normalised) <= 140
    /\ \E t \in {"ceo", "founder", "founded", "headquartered", "headquarters", "hq",
                 "ticker", "employees", "net worth", "market cap", "revenue"} :
          Contains(Normalised, t)
    /\ \/ Contains(Normalised, "?")
       \/ \E w \in {"who ", "where ", "when ", "what ", "how many ", "how much "} :
            StartsWith(Normalised, w)

\* C19: a message without a trigger phrase that matches no quick-question
\* template is a quick_answer exactly when it is short (at most 140
\* characters once stripped), holds a lookup term, and holds a '?' or starts
\* with a question word; otherwise, the empty message included, it is a
\* full_report.
C19_LookupHeuristic ==
    (pout # NoneV /\ ~HasTrigger /\ ~MatchesQuickPattern(Normalised)) =>
        pout.value = IF ShortLookupQuestion THEN "quick_answer" ELSE "full_report"

C19_Witness ==
    /\ pout # NoneV
    /\ ~HasTrigger
    /\ ~MatchesQuickPattern(Normalised)
    /\ Len(Normalised) = 140
    /\ pout.value = "quick_answer"

(***************************************************************************)
(* The reply of the quick-answer path on its own: lines 433-445 on every   *)
(* QuickAnswerResult of the answers and source urls below.                 *)
(***************************************************************************)
AnswerInputs ==
    {"The CEO of Tesla is Elon Musk.", "Elon Musk", "- Elon Musk leads Tesla",
     "* Elon Musk.", "Is Tesla public? Yes, since 2010.", "Yes! Elon Musk is the CEO.",
     "Elon Musk...", "", "  ", "Dr. Musk runs Tesla.", "Elon\nMusk  leads\tTesla",
     "See https://www.tesla.com/leadership for details", "?", "...", "Musk is CEO!",
     " Tesla is based in Austin. It moved in 2021. ", "Austin, Texas"}

UrlInputs == {"", "https://www.tesla.com/leadership", "http://localhost"}

InitReply ==
    /\ Parked
    /\ pin \in [answer : AnswerInputs, source_url : UrlInputs, confidence : Confidences,
                query_used : {"Tesla CEO"}]
    /\ pout = NoneV

ApplyReply ==
    /\ pout = NoneV
    /\ pout' = [value |-> quick_reply(pin)]
    /\ UNCHANGED <<pin, wfVars>>

NextReply == ApplyReply

SpecReply == InitReply /\ [][NextReply]_vars

\* the reply without the url of its closing citation " (url)."
OutsideUrl(reply, url) ==
    LET cite == " (" \o url \o ")." IN
    IF url # "" /\ Len(reply) >= Len(cite)
       /\ SubSeq(reply, Len(reply) - Len(cite) + 1, Len(reply)) = cite
    THEN SubSeq(reply, 1, Len(reply) - Len(cite)) \o " ()."
    ELSE reply

MarkCount(s) == Cardinality({i \in 1..Len(s) : Char(s, i) \in {".", "!", "?"}})

\* C20: the reply of the quick-answer path ends with one terminal mark
\* (. ! or ?), and holds exactly one such mark once the url of a
\* parenthetical citation is left out.
C20_OneTerminalMark ==
    pout # NoneV =>
        LET reply == pout.value IN
        /\ reply # ""
        /\ Char(reply, Len(reply)) \in {".", "!", "?"}
        /\ MarkCount(OutsideUrl(reply, pin.source_url)) = 1

(***************************************************************************)
(* The quick-answer path, credentials, and the accumulation of state       *)
(***************************************************************************)
\* the events after the domain gate has answered
AfterGate ==
    LET done == {i \in 1..Len(events) : events[i] = "gate_done"} IN
    IF done = {} THEN <<>>
    ELSE SubSeq(events, (CHOOSE i \in done : TRUE) + 1, Len(events))

\* C21: a request of intent quick_answer runs one specialist step, the news
\* researcher in quick_answer mode with one search query before it, and never
\* the prompt parser, the financial step, the report step or a second search.
C21_QuickPathOneStep ==
    intent = "quick_answer" =>
        /\ \E n \in 0..1 : Steps = SubSeq(<<"quick">>, 1, n)
        /\ Count("search") <= 1
        /\ Count("fin_call") = 0
        /\ parsed = NoneV
        /\ \A i \in 1..Len(AfterGate) : AfterGate[i] \in {"search", "quick"}
        /\ (Steps # <<>>) => AfterGate = <<"search", "quick">>
        /\ (pc = "done" /\ ret.kind = "returned") => Steps = <<"quick">>

C21_Witness ==
    /\ intent = "quick_answer"
    /\ pc = "done"
    /\ ret.kind = "returned"
    /\ AfterGate = <<"search", "quick">>

\* all three credentials of the environment are set
AllCredentials == env.openai /\ env.serper /\ env.alpha

\* C22: a missing credential (text provider, search provider or financial
\* provider) is fatal when the request handler loads the configuration: with
\* any of the three missing, the handler ends the request with the
\* configuration error before the gate, a provider call or a step is reached.
C22_MissingCredentialFatalAtStartup ==
    [][(pc = "chat" /\ ~AllCredentials) =>
          /\ pc' = "done"
          /\ ret'.kind = "raised"
          /\ ret'.exc = "RuntimeError"
          /\ events' = <<>>]_vars

\* the fields of ManagerState that the news step writes
NewsFields == {"company_overview", "recent_developments", "products_pricing"}

\* the step that has just run is one of the given Crew kickoffs
JustRan(steps) == \E e \in steps : events' = Append(events, e)

\* C23: the state of a request only accumulates: company_overview,
\* recent_developments, products_pricing and financial_overview are each
\* written at most once and only by their own step, never overwritten by a
\* later step, and state.sources is only ever extended at its end.
C23_StateAdditive ==
    [][state # NoneV =>
          /\ state' # NoneV
          /\ state'.competitor_name = state.competitor_name
          /\ state'.parsed_prompt = state.parsed_prompt
          /\ \A f \in NewsFields :
                state'[f] # state[f] =>
                    IsNone(state[f]) /\ JustRan({"news", "news2"})
          /\ state'.financial_overview # state.financial_overview =>
                IsNone(state.financial_overview) /\ JustRan({"financial"})
          /\ Len(state'.sources) >= Len(state.sources)
          /\ SubSeq(state'.sources, 1, Len(state.sources)) = state.sources]_vars

C23_Witness ==
    /\ state # NoneV
    /\ ~IsNone(state.company_overview)
    /\ ~IsNone(state.financial_overview)
    /\ Len(state.sources) >= 2
    /\ Count("news2") = 1
    /\ pc = "done"
    /\ ret.kind = "returned"

(***************************************************************************)
(* ReportMemo.render_markdown on its own                                   *)
(***************************************************************************)
\* a list field of the memo: empty, or with one item
ListInputs == {<<>>, <<"x">>}

\* swot: no key at all, every key with an empty or a one-item list, one key only
SwotInputs ==
    { <<>>, [k \in SwotKeys |-> <<>>], [k \in SwotKeys |-> <<"x">>],
      [k \in {"strengths"} |-> <<"x">>] }

PerformanceInputs ==
    { NoneV,
      [as_of |-> "2025-01-31", last_close |-> Some(100), change_5d_pct |-> Some(2),
       change_1m_pct |-> NoneV, change_6m_pct |-> NoneV] }

MemoInputs ==
    { [competitor_name |-> "Acme", date_label |-> "January 2025",
       executive_summary |-> es,
       company_overview |-> CompanyOverview("Acme makes rockets", "2002", "Austin", ex),
       recent_developments |->
           [product_news |-> pn, partnerships_and_deals |-> pd, org_changes |-> oc],
       financial_overview |->
           [FinancialOverview("ACM") EXCEPT !.notes = nt, !.price_performance = perf],
       products_pricing |->
           [core_products |-> cp, pricing_model |-> "unknown",
            competitive_differentiation |-> cd],
       swot |-> sw,
       key_takeaways |-> kt] :
      es \in ListInputs, ex \in ListInputs, pn \in ListInputs, pd \in ListInputs,
      oc \in ListInputs, nt \in ListInputs, cp \in ListInputs, cd \in ListInputs,
      kt \in ListInputs, sw \in SwotInputs, perf \in PerformanceInputs }

InitRender ==
    /\ Parked
    /\ pin \in MemoInputs
    /\ pout = NoneV

ApplyRender ==
    /\ pout = NoneV
    /\ pout' = [value |-> render_markdown(pin)]
    /\ UNCHANGED <<pin, wfVars>>

NextRender == ApplyRender

SpecRender == InitRender /\ [][NextRender]_vars

\* every list field of the memo is empty
AllListsEmpty(memo) ==
    /\ memo.executive_summary = <<>>
    /\ memo.company_overview.executives = <<>>
    /\ memo.recent_developments.product_news = <<>>
    /\ memo.recent_developments.partnerships_and_deals = <<>>
    /\ memo.recent_developments.org_changes = <<>>
    /\ memo.financial_overview.notes = <<>>
    /\ memo.products_pricing.core_products = <<>>
    /\ memo.products_pricing.competitive_differentiation = <<>>
    /\ \A k \in SwotKeys : SwotGet(memo.swot, k) = <<>>
    /\ memo.key_takeaways = <<>>

\* the heading of every list section, up to where its items start
ListSections ==
    { "**Executive Summary**\n- ",
      "- executives/leadership (CEO, founders)  \n  ",
      "- product news/updates / new products\n- ",
      "- partnerships and deals\n- ",
      "- organizational changes\n- ",
      "- notes\n- ",
      "- core products\n- ",
      "- competitive differentiation\n- ",
      "- strengths (internal +)\n- ",
      "- weaknesses (internal -)\n- ",
      "- opportunities (external +)\n- ",
      "- threats (external -)\n- ",
      "**Key Takeaways**\n- " }

\* C24: when every list field of a ReportMemo is empty, render_markdown puts
\* the literal "unknown" in place of each bullet list (executive summary,
\* executives, the three recent-developments lists, financial notes, core
\* products, competitive differentiation, the four SWOT categories, key
\* takeaways): no list section is left empty or left out.
C24_EmptyListsRenderUnknown ==
    (pout # NoneV /\ AllListsEmpty(pin)) =>
        \A section \in ListSections :
            /\ Contains(pout.value, section \o "unknown")
            /\ ~Contains(pout.value, section \o "\n")

(***************************************************************************)
(* Two requests in the thread pool of the chat handler                     *)
(***************************************************************************)
\* the locals of chat and run_manager_workflow for the request that runs
Locals ==
    [pc |-> pc, llm |-> llm, message |-> message, classification |-> classification,
     intent |-> intent, parsed |-> parsed, state |-> state, qi |-> qi,
     fetched |-> fetched, output |-> output, nr |-> nr, firstOut |-> firstOut,
     firstNr |-> firstNr, events |-> events, fin |-> fin, ret |-> ret]

\* the locals of a request that starts at pc with text provider l: at the
\* handler, or inside run_manager_workflow for a caller that passes no provider
Fresh(m, at, l) ==
    [pc |-> at, llm |-> l, message |-> m, classification |-> NoneV,
     intent |-> "none", parsed |-> NoneV, state |-> NoneV, qi |-> 0,
     fetched |-> <<>>, output |-> NoneV, nr |-> NoneV, firstOut |-> NoneV,
     firstNr |-> NoneV, events |-> <<>>, fin |-> NoneV, ret |-> Pending]

\* the two requests that run together: two requests of the handler, and a
\* full report next to a request of the handler
RequestPairs ==
    { <<Fresh("Who is the CEO of Tesla?", "chat", "none"),
        Fresh("How do I become a CEO?", "chat", "none")>>,
      <<Fresh("competitor: Acme, ticker: acm", WorkflowEntry, "none"),
        Fresh("Who is the CEO of Tesla?", "chat", "none")>> }

\* a scheduler that leaves the ManagerState where it is, as a module-level
\* object shared by the requests would be
SwitchSharedState ==
    /\ pin # NoneV
    /\ pin' = Locals
    /\ pc' = pin.pc /\ llm' = pin.llm /\ message' = pin.message
    /\ classification' = pin.classification /\ intent' = pin.intent
    /\ parsed' = pin.parsed /\ qi' = pin.qi
    /\ fetched' = pin.fetched /\ output' = pin.output /\ nr' = pin.nr
    /\ firstOut' = pin.firstOut /\ firstNr' = pin.firstNr
    /\ events' = pin.events /\ fin' = pin.fin /\ ret' = pin.ret
    /\ UNCHANGED <<env, pout, state>>

\* the thread of the other request is scheduled: each thread has its own
\* locals, the environment is the process's
Switch ==
    /\ pin # NoneV
    /\ pin' = Locals
    /\ pc' = pin.pc /\ llm' = pin.llm /\ message' = pin.message
    /\ classification' = pin.classification /\ intent' = pin.intent
    /\ parsed' = pin.parsed /\ state' = pin.state /\ qi' = pin.qi
    /\ fetched' = pin.fetched /\ output' = pin.output /\ nr' = pin.nr
    /\ firstOut' = pin.firstOut /\ firstNr' = pin.firstNr
    /\ events' = pin.events /\ fin' = pin.fin /\ ret' = pin.ret
    /\ UNCHANGED <<env, pout>>

InitTwo ==
    /\ env = [openai |-> TRUE, serper |-> TRUE, alpha |-> TRUE]
    /\ \E pair \in RequestPairs :
         /\ pc = pair[1].pc /\ llm = pair[1].llm /\ message = pair[1].message
         /\ pin = pair[2]
    /\ classification = NoneV /\ intent = "none" /\ parsed = NoneV /\ state = NoneV
    /\ qi = 0 /\ fetched = <<>> /\ output = NoneV /\ nr = NoneV
    /\ firstOut = NoneV /\ firstNr = NoneV /\ events = <<>> /\ fin = NoneV
    /\ ret = Pending
    /\ pout = NoneV

NextTwo == Next \/ Switch

SpecTwo == InitTwo /\ [][NextTwo]_vars

\* what each message alone determines
EntityOf == [m \in Messages |-> _extract_entity_from_question(m)]

\* the prompts that a message can be parsed to, with and without a provider
ParsesOf ==
    [m \in Messages |->
        [l \in {"llm", "none"} |->
            { IF IsNone(_parse_prompt_with_llm(m, l, reply))
              THEN _parse_prompt_with_regex(m)
              ELSE _parse_prompt_with_llm(m, l, reply) : reply \in ParseReplies }]]

\* the document that each task output alone determines
QuickDocumentOf ==
    [out \in QuickOutputs |->
        IF IsRaised(recover_quick(out)) THEN "" ELSE quick_reply(recover_quick(out).v)]

ReportDocumentOf ==
    [out \in ReportOutputs |->
        IF IsRaised(recover_report(out)) THEN ""
        ELSE render_markdown(recover_report(out).v)]

\* the name that the request's own message gives its state
OwnName(r) ==
    IF r.parsed # NoneV THEN r.parsed.competitor_name
    ELSE IF r.intent = "quick_answer" /\ EntityOf[r.message] # ""
    THEN EntityOf[r.message]
    ELSE "unknown"

\* the document that the request's own last task output gives
OwnDocument(r) ==
    IF GateRejects(r.classification) THEN fixed
    ELSE IF r.intent = "quick_answer" THEN QuickDocumentOf[r.output]
    ELSE ReportDocumentOf[r.output]

\* state, steps and reply of request r follow from r's own message and from
\* the outputs that r's own calls returned
Own(r) ==
    LET steps == SelectSeq(r.events, IsKickoff) IN
    /\ r.intent \in {"none", IntentOf[r.message]}
    /\ r.parsed # NoneV => r.parsed \in ParsesOf[r.message][r.llm]
    /\ r.intent = "none" => steps = <<>>
    /\ r.intent = "quick_answer" => \E n \in 0..1 : steps = SubSeq(<<"quick">>, 1, n)
    /\ (\E i \in 1..Len(steps) : steps[i] = "news2") =>
           r.firstNr # NoneV /\ _needs_second_search(r.firstNr)
    /\ r.state # NoneV =>
          /\ r.state.competitor_name = OwnName(r)
          /\ r.state.parsed_prompt = (IF r.parsed # NoneV THEN r.parsed ELSE UnknownPrompt)
          /\ ~IsNone(r.state.company_overview) =>
                /\ r.nr # NoneV
                /\ r.state.company_overview = r.nr.company_overview
                /\ r.state.recent_developments = r.nr.recent_developments
                /\ r.state.products_pricing = r.nr.products_pricing
                /\ SubSeq(r.state.sources, 1, Len(r.nr.sources)) = r.nr.sources
          /\ IsNone(r.state.company_overview) /\ IsNone(r.state.financial_overview) =>
                r.state.sources = <<>>
    /\ r.ret.kind = "returned" =>
          /\ r.pc = "done"
          /\ r.ret.state = r.state
          /\ r.ret.memo_markdown = OwnDocument(r)

\* C25: requests are isolated: in every interleaving of two requests, the
\* state, the step sequence and the reply of each request follow from its
\* own message and the outputs of its own provider calls and steps.
C25_RequestsIsolated == pin # NoneV => Own(Locals) /\ Own(pin)

C25_Witness ==
    /\ pin # NoneV
    /\ pc = "done" /\ ret.kind = "returned"
    /\ pin.pc = "done" /\ pin.ret.kind = "returned"
    /\ intent # pin.intent
    /\ Count("financial") = 1 \/ Cardinality({i \in 1..Len(pin.events) : pin.events[i] = "financial"}) = 1

(***************************************************************************)
(* alpha_vantage.py: AlphaVantageClient._get, one attempt at a time        *)
(***************************************************************************)
\* the default of the keyword argument max_retries
max_retries == 2

\* time.sleep(1.2 * (attempt + 1)), in tenths of a second
SleepTenths == 12

backoff(attempt) == SleepTenths * (attempt + 1)

\* bool(v) of a decoded JSON value
Truthy(j) ==
    CASE j.t = "str" -> j.s # ""
      [] j.t = "num" -> j.n # 0
      [] j.t = "list" -> j.l # <<>>
      [] j.t = "dict" -> DOMAIN j.d # {}
      [] OTHER -> FALSE

\* str(msg) of a message that is a string or None
PyStr(j) == IF j.t = "str" THEN j.s ELSE "None"

\* what one HTTP request can come back with
TransportError == [kind |-> "raised", exc |-> "ConnectError"]

HttpStatus(status) == [kind |-> "status", status |-> status]

HttpOk(j) == [kind |-> "ok", json |-> j]

dataOverview == JDict(("Symbol" :> JStr("NVDA")) @@ ("Name" :> JStr("NVIDIA Corp")))

softDaily ==
    JDict("Information" :> JStr("Our standard API rate limit is 25 requests per day."))

softDailyUpper ==
    JDict(("Information" :> JStr(""))
          @@ ("Note" :> JStr("Limit reached: 25 requests PER DAY.")))

softMinute == JDict("Note" :> JStr("Thank you: 5 calls per minute."))

softInvalid == JDict("Error Message" :> JStr("Invalid API call."))

emptyNote == JDict(("Note" :> JStr("")) @@ ("Symbol" :> JStr("NVDA")))

Responses ==
    { TransportError, HttpStatus(500), HttpStatus(429), HttpOk(NotJson),
      HttpOk(dataOverview), HttpOk(JList(<<>>)), HttpOk(emptyNote),
      HttpOk(softDaily), HttpOk(softDailyUpper), HttpOk(softMinute),
      HttpOk(softInvalid) }

soft_keys == {"Information", "Note", "Error Message"}

\* line 42
soft_message(data) ==
    IF Truthy(DictGet(data, "Information")) THEN DictGet(data, "Information")
    ELSE IF Truthy(DictGet(data, "Note")) THEN DictGet(data, "Note")
    ELSE DictGet(data, "Error Message")

GetReturns(data) == [out |-> "return", data |-> data, slept |-> <<>>]

GetRaises(type, msg, slept) == [out |-> "raise", exc |-> Raised(type, msg), slept |-> slept]

\* a body of the loop that hands every decoded payload back
attempt_body_unchecked(resp, attempt) ==
    IF resp.kind = "raised" THEN GetRaises(resp.exc, "connection failed", <<>>)
    ELSE IF resp.kind = "status" THEN GetRaises("HTTPStatusError", "error status", <<>>)
    ELSE IF resp.json = NotJson THEN GetRaises("JSONDecodeError", "Expecting value", <<>>)
    ELSE GetReturns(resp.json)

\* lines 32-50: the body of the try block for one attempt
attempt_body(resp, attempt) ==
    IF resp.kind = "raised" THEN GetRaises(resp.exc, "connection failed", <<>>)
    ELSE IF resp.kind = "status" THEN GetRaises("HTTPStatusError", "error status", <<>>)
    ELSE IF resp.json = NotJson THEN GetRaises("JSONDecodeError", "Expecting value", <<>>)
    ELSE LET data == resp.json IN
         IF data.t = "dict" /\ soft_keys \cap DOMAIN data.d # {}
         THEN LET msg == soft_message(data) IN
              IF Truthy(msg)
              THEN IF Contains(Lower(PyStr(msg)), "per day")
                   THEN GetRaises("AlphaVantageError", PyStr(msg), <<>>)
                   ELSE GetRaises("AlphaVantageError", PyStr(msg), <<backoff(attempt)>>)
              ELSE GetReturns(data)
         ELSE GetReturns(data)

GetFunctions == {"SYMBOL_SEARCH", "OVERVIEW"}

\* _get has been entered: no attempt made yet
InitGet ==
    /\ Parked
    /\ pin \in [function : GetFunctions]
    /\ pout = [attempt |-> 0, responses |-> <<>>, slept |-> <<>>, last_err |-> NoneV,
               result |-> Pending]

\* lines 31-56: one turn of the loop, with the except clause, and the raise
\* after the loop when this was the last turn
GetAttempt ==
    /\ pout.result = Pending
    /\ pout.attempt < max_retries + 1
    /\ \E resp \in Responses :
         LET o == attempt_body(resp, pout.attempt)
             again == pout.attempt < max_retries
         IN  pout' =
               IF o.out = "return"
               THEN [pout EXCEPT !.responses = Append(@, resp),
                                 !.result = [kind |-> "returned", data |-> o.data]]
               ELSE [pout EXCEPT
                       !.responses = Append(@, resp),
                       !.last_err = o.exc,
                       !.slept = @ \o o.slept
                                   \o (IF again THEN <<backoff(pout.attempt)>> ELSE <<>>),
                       !.attempt = @ + 1,
                       !.result =
                           IF again THEN Pending
                           ELSE Failed(Raised("AlphaVantageError",
                                    "Alpha Vantage request failed: " \o o.exc.msg))]
    /\ UNCHANGED <<pin, wfVars>>

NextGet == GetAttempt

SpecGet == InitGet /\ [][NextGet]_vars

\* a 200 response with a soft error: Information, Note or Error Message with
\* a message that is not empty
SoftError(resp) ==
    /\ resp.kind = "ok"
    /\ resp.json.t = "dict"
    /\ \E k \in soft_keys \cap DOMAIN resp.json.d : Truthy(resp.json.d[k])

\* a soft error whose message speaks of the daily quota
DailyQuota(resp) ==
    /\ SoftError(resp)
    /\ \E k \in soft_keys \cap DOMAIN resp.json.d :
          Contains(Lower(PyStr(resp.json.d[k])), "per day")

\* the request failed: transport, HTTP status, body, or soft error
RequestFailed(resp) ==
    resp.kind \in {"raised", "status"} \/ resp.json = NotJson \/ SoftError(resp)

\* C26: a 200 response whose soft-error message contains "per day" makes _get
\* fail at once with AlphaVantageError: no further HTTP request is made,
\* whatever retries are left.
C26_DailyQuotaNotRetried ==
    \A i \in 1..Len(pout.responses) :
        DailyQuota(pout.responses[i]) =>
            /\ i = Len(pout.responses)
            /\ pout.result.kind = "raised"
            /\ pout.result.exc = "AlphaVantageError"

\* C27: a transport or HTTP failure, or a soft error that is not the daily
\* quota, is retried; _get makes at most max_retries + 1 = 3 HTTP requests,
\* returns the data of the first response without soft error, raises
\* AlphaVantageError once the attempts are used up, and never returns the
\* payload of a soft error as data.
C27_RetriesUpToCap ==
    LET n == Len(pout.responses) IN
    /\ n <= max_retries + 1
    /\ \A i \in 1..(n - 1) : RequestFailed(pout.responses[i])
    /\ pout.result.kind = "pending" =>
          /\ n < max_retries + 1
          /\ \A i \in 1..n : RequestFailed(pout.responses[i])
    /\ pout.result.kind = "returned" =>
          /\ ~RequestFailed(pout.responses[n])
          /\ pout.result.data = pout.responses[n].json
    /\ pout.result.kind = "raised" =>
          /\ pout.result.exc = "AlphaVantageError"
          /\ RequestFailed(pout.responses[n])
          /\ (\A i \in 1..n : ~DailyQuota(pout.responses[i])) => n = max_retries + 1

C27_Witness ==
    /\ Len(pout.responses) = max_retries + 1
    /\ pout.responses[1] = TransportError
    /\ pout.responses[2] = HttpOk(softMinute)
    /\ pout.result.kind = "returned"
    /\ pout.result.data = dataOverview

(***************************************************************************)
(* serper_search.py: serper_search, one attempt at a time                  *)
(***************************************************************************)
\* the default of serper_search's keyword argument max_retries
search_max_retries == 2

\* time.sleep(1.5 * (attempt + 1)), in tenths of a second
SearchSleepTenths == 15

search_backoff(attempt) == SearchSleepTenths * (attempt + 1)

organicItem(title, link) ==
    JDict(("title" :> JStr(title)) @@ ("link" :> JStr(link))
          @@ ("snippet" :> JStr("About " \o title)))

organicTwo ==
    JDict("organic" :> JList(<< organicItem("Tesla leadership", "https://tesla.example/team"),
                                JDict("title" :> JStr("No link")),
                                organicItem("", "https://tesla.example/untitled"),
                                organicItem("Tesla on Wikipedia", "https://wiki.example/Tesla") >>))

organicEmpty == JDict("organic" :> JList(<<>>))

organicNull == JDict("organic" :> JNull)

organicMissing == JDict("searchParameters" :> JDict("q" :> JStr("tesla")))

organicOfStrings == JDict("organic" :> JList(<<JStr("Tesla")>>))

SearchResponses ==
    { TransportError, HttpStatus(429), HttpStatus(500), HttpOk(NotJson),
      HttpOk(JList(<<>>)), HttpOk(organicOfStrings), HttpOk(organicTwo),
      HttpOk(organicEmpty), HttpOk(organicNull), HttpOk(organicMissing) }

\* data.get("organic", []) or []
organic_of(data) ==
    IF "organic" \in DOMAIN data.d /\ Truthy(data.d["organic"]) THEN data.d["organic"]
    ELSE JList(<<>>)

\* lines 59-69: the items that have a link and a title
RECURSIVE sources_of(_)
sources_of(items) ==
    IF items = <<>> THEN <<>>
    ELSE LET item == Head(items)
             link == DictGet(item, "link")
             title == DictGet(item, "title")
         IN  IF ~Truthy(link) \/ ~Truthy(title) THEN sources_of(Tail(items))
             ELSE << [title |-> PyStr(title), url |-> PyStr(link),
                      snippet |-> IF DictGet(item, "snippet").t = "str"
                                  THEN DictGet(item, "snippet").s ELSE NoneV,
                      published_date |-> IF DictGet(item, "date").t = "str"
                                         THEN DictGet(item, "date").s ELSE NoneV] >>
                  \o sources_of(Tail(items))

SearchReturns(sources) == [out |-> "return", sources |-> sources, slept |-> <<>>]

\* a body of the loop that answers a rate limit with no results
search_body_quiet(resp, attempt) ==
    IF resp.kind = "raised" THEN GetRaises(resp.exc, "connection failed", <<>>)
    ELSE IF resp.kind = "status" THEN SearchReturns(<<>>)
    ELSE IF resp.json = NotJson THEN GetRaises("JSONDecodeError", "Expecting value", <<>>)
    ELSE IF resp.json.t # "dict" \/ organic_of(resp.json).t # "list"
    THEN GetRaises("AttributeError", "object has no attribute 'get'", <<>>)
    ELSE IF \E i \in 1..Len(organic_of(resp.json).l) : organic_of(resp.json).l[i].t # "dict"
    THEN GetRaises("AttributeError", "'str' object has no attribute 'get'", <<>>)
    ELSE SearchReturns(sources_of(organic_of(resp.json).l))

\* lines 48-70: the body of the try block for one attempt
search_body(resp, attempt) ==
    IF resp.kind = "raised" THEN GetRaises(resp.exc, "connection failed", <<>>)
    ELSE IF resp.kind = "status" /\ resp.status = 429
    THEN GetRaises("SerperSearchError", "Serper rate limit (429)",
                   <<search_backoff(attempt)>>)
    ELSE IF resp.kind = "status" THEN GetRaises("HTTPStatusError", "error status", <<>>)
    ELSE IF resp.json = NotJson THEN GetRaises("JSONDecodeError", "Expecting value", <<>>)
    ELSE IF resp.json.t # "dict" \/ organic_of(resp.json).t # "list"
    THEN GetRaises("AttributeError", "object has no attribute 'get'", <<>>)
    ELSE IF \E i \in 1..Len(organic_of(resp.json).l) : organic_of(resp.json).l[i].t # "dict"
    THEN GetRaises("AttributeError", "'str' object has no attribute 'get'", <<>>)
    ELSE SearchReturns(sources_of(organic_of(resp.json).l))

SearchQueries == {"Tesla CEO", "Acme company overview"}

\* serper_search has been called: no attempt made yet
InitSearch ==
    /\ Parked
    /\ pin \in [query : SearchQueries, api_key : BOOLEAN]
    /\ pout = [attempt |-> 0, responses |-> <<>>, slept |-> <<>>, last_err |-> NoneV,
               result |-> Pending]

\* line 40 with _env_api_key: no key, no request
SearchWithoutKey ==
    /\ pout.result = Pending
    /\ ~pin.api_key
    /\ pout' = [pout EXCEPT
                  !.result = Failed(Raised("SerperSearchError", "SERPER_API_KEY is required"))]
    /\ UNCHANGED <<pin, wfVars>>

\* lines 47-79: one turn of the loop, with the except clause, and the raise
\* after the loop when this was the last turn
SearchAttempt ==
    /\ pout.result = Pending
    /\ pin.api_key
    /\ pout.attempt < search_max_retries + 1
    /\ \E resp \in SearchResponses :
         LET o == search_body(resp, pout.attempt)
             again == pout.attempt < search_max_retries
         IN  pout' =
               IF o.out = "return"
               THEN [pout EXCEPT !.responses = Append(@, resp),
                                 !.result = [kind |-> "returned", sources |-> o.sources]]
               ELSE [pout EXCEPT
                       !.responses = Append(@, resp),
                       !.last_err = o.exc,
                       !.slept = @ \o o.slept
                                   \o (IF again THEN <<search_backoff(pout.attempt)>>
                                       ELSE <<>>),
                       !.attempt = @ + 1,
                       !.result =
                           IF again THEN Pending
                           ELSE Failed(Raised("SerperSearchError",
                                    "Serper search failed for query="
                                    \o Dumps(JStr(pin.query)) \o ": " \o o.exc.msg))]
    /\ UNCHANGED <<pin, wfVars>>

NextSearch == SearchWithoutKey \/ SearchAttempt

SpecSearch == InitSearch /\ [][NextSearch]_vars

\* the request brought results back: status 200 and a JSON object whose
\* organic entry, when there is one, is a list of objects
SearchSucceeded(resp) ==
    /\ resp.kind = "ok"
    /\ resp.json # NotJson
    /\ resp.json.t = "dict"
    /\ ("organic" \in DOMAIN resp.json.d /\ resp.json.d["organic"].t # "null") =>
          /\ resp.json.d["organic"].t = "list"
          /\ \A i \in 1..Len(resp.json.d["organic"].l) :
                resp.json.d["organic"].l[i].t = "dict"

\* C28: serper_search makes at most max_retries + 1 = 3 HTTP requests per
\* call; it returns the results of the first request that succeeds and makes
\* none after it; it retries after HTTP 429 and after a transport failure;
\* when every attempt has failed it raises SerperSearchError naming the
\* query, and it never returns an empty list to signal failure.
C28_SearchRetries ==
    LET n == Len(pout.responses) IN
    /\ n <= search_max_retries + 1
    /\ \A i \in 1..(n - 1) : ~SearchSucceeded(pout.responses[i])
    /\ (pout.result.kind = "pending" /\ n > 0) =>
          /\ n < search_max_retries + 1
          /\ ~SearchSucceeded(pout.responses[n])
    /\ (n > 0 /\ n < search_max_retries + 1
        /\ (pout.responses[n] = TransportError \/ pout.responses[n] = HttpStatus(429))) =>
          pout.result.kind = "pending"
    /\ pout.result.kind = "returned" =>
          /\ n > 0
          /\ SearchSucceeded(pout.responses[n])
          /\ pout.result.sources = sources_of(organic_of(pout.responses[n].json).l)
    /\ (pout.result.kind = "raised" /\ pin.api_key) =>
          /\ n = search_max_retries + 1
          /\ \A i \in 1..n : ~SearchSucceeded(pout.responses[i])
          /\ pout.result.exc = "SerperSearchError"
          /\ Contains(pout.result.msg, pin.query)

C28_Witness ==
    /\ pin.api_key
    /\ Len(pout.responses) = search_max_retries + 1
    /\ pout.responses[1] = HttpStatus(429)
    /\ pout.responses[2] = TransportError
    /\ pout.result.kind = "returned"
    /\ Len(pout.result.sources) = 2

(***************************************************************************)
(* financial_analyst.py: _resolve_ticker on its own                        *)
(***************************************************************************)
MaxMatches == 3

\* entries of bestMatches: listings in and outside the United States, with
\* and without exchange suffix, of other types, and one without a symbol
MatchInputs ==
    { matchUs, matchForeign,
      Match(" amd ", "equity", "UNITED STATES", 8),
      Match("NVDL", "Equity", "United States", 9),
      Match("BRK/B", "Equity", "United States", 9),
      Match("NVDX", "ETF", "United States", 9),
      Match("NVDA34.SAO", "Equity", "Brazil/Sao Paolo", 5),
      Match("TSLA", "Equity", "Toronto", 9),
      Match("", "Equity", "United States", 10) }

InitTicker ==
    /\ Parked
    /\ pin \in [matches : UNION {[1..n -> MatchInputs] : n \in 0..MaxMatches}]
    /\ pout = NoneV

ApplyTicker ==
    /\ pout = NoneV
    /\ pout' = [value |-> _resolve_ticker(pin.matches)]
    /\ UNCHANGED <<pin, wfVars>>

NextTicker == ApplyTicker

SpecTicker == InitTicker /\ [][NextTicker]_vars

\* match a comes before match b: United States equity first, then a plain
\* symbol, then the higher matchScore
Preferred(a, b) ==
    \/ is_us_equity(a) /\ ~is_us_equity(b)
    \/ /\ is_us_equity(a) = is_us_equity(b)
       /\ is_plain_symbol(a) /\ ~is_plain_symbol(b)
    \/ /\ is_us_equity(a) = is_us_equity(b)
       /\ is_plain_symbol(a) = is_plain_symbol(b)
       /\ a.matchScore > b.matchScore

\* no match comes before matches[i]
MinimalMatch(matches, i) ==
    \A k \in 1..Len(matches) : ~Preferred(matches[k], matches[i])

Lookback5d == 5

Lookback1m == 22

Lookback6m == 126

\* the longest daily series of the inputs
MaxSessions == 127

SessionsPerMonth == 28

TwoDigits(n) == IF n < 10 THEN "0" \o NatStr(n) ELSE NatStr(n)

\* the key of the k-th session of the series, as the provider writes dates
DateStr(k) ==
    "2025-" \o TwoDigits(((k - 1) \div SessionsPerMonth) + 1)
            \o "-" \o TwoDigits(((k - 1) % SessionsPerMonth) + 1)

\* a < b for two str of date characters, as Python compares them
CharOrder == "-0123456789"

CharRank(c) == CHOOSE i \in 1..Len(CharOrder) : Char(CharOrder, i) = c

RECURSIVE StrLess(_, _)
StrLess(a, b) ==
    IF b = "" THEN FALSE
    ELSE IF a = "" THEN TRUE
    ELSE IF Char(a, 1) # Char(b, 1) THEN CharRank(Char(a, 1)) < CharRank(Char(b, 1))
    ELSE StrLess(SubSeq(a, 2, Len(a)), SubSeq(b, 2, Len(b)))

\* float(s) of a str of digits
RECURSIVE NatOf(_)
NatOf(s) ==
    IF s = "" THEN 0
    ELSE 10 * NatOf(SubSeq(s, 1, Len(s) - 1))
         + ((CHOOSE i \in 1..10 : Char(Digits, i) = Char(s, Len(s))) - 1)

\* lines 78-89; the numbers of the model are whole
_safe_float(v) ==
    IF v.t = "null" THEN NoneV
    ELSE IF v.t = "num" THEN Some(v.n)
    ELSE IF v.t # "str" THEN NoneV
    ELSE LET s == Strip(v.s) IN
         IF s \in {"", "None", "null", "-"} THEN NoneV
         ELSE IF \A i \in 1..Len(s) : Char(s, i) \in CharsOf(Digits) THEN Some(NatOf(s))
         ELSE NoneV

\* lines 107-110: (a - b) / b * 100.0, kept as the fraction it is
_pct(a, b) ==
    IF IsNone(a) \/ IsNone(b) THEN NoneV
    ELSE IF b.some = 0 THEN NoneV
    ELSE Some([num |-> (a.some - b.some) * 100, den |-> b.some])

\* a dict of the payload: its items in insertion order
PyDict(items) == [t |-> "dict", items |-> items]

\* d.get(key) of such a dict
ItemGet(d, key) ==
    IF \E i \in 1..Len(d.items) : d.items[i][1] = key
    THEN d.items[CHOOSE i \in 1..Len(d.items) : d.items[i][1] = key][2]
    ELSE JNull

\* a close that falls back on the oldest row of the series
close_at_oldest(series, dates, idx) ==
    LET at == IF idx >= Len(dates) THEN Len(dates) ELSE idx + 1
        row == ItemGet(series, dates[at])
    IN  IF row.t # "dict" THEN NoneV
        ELSE _safe_float(IF Truthy(DictGet(row, "5. adjusted close"))
                         THEN DictGet(row, "5. adjusted close")
                         ELSE DictGet(row, "4. close"))

\* lines 123-127
close_at(series, dates, idx) ==
    IF idx >= Len(dates) THEN NoneV
    ELSE LET row == ItemGet(series, dates[idx + 1]) IN
         IF row.t # "dict" THEN NoneV
         ELSE _safe_float(IF Truthy(DictGet(row, "5. adjusted close"))
                          THEN DictGet(row, "5. adjusted close")
                          ELSE DictGet(row, "4. close"))

NoPerformance ==
    [as_of |-> NoneV, last |-> NoneV, change_5d |-> NoneV, change_1m |-> NoneV,
     change_6m |-> NoneV]

\* lines 113-134; series is ts_daily_adjusted.get("Time Series (Daily)")
summarize_price_performance(series) ==
    IF series.t # "dict" THEN NoPerformance
    ELSE IF series.items = <<>> THEN NoPerformance
    ELSE LET keys == [i \in 1..Len(series.items) |-> series.items[i][1]]
             dates == SortSeq(keys, LAMBDA a, b : StrLess(b, a))
             last == close_at(series, dates, 0)
         IN  [as_of |-> Some(dates[1]),
              last |-> last,
              change_5d |-> _pct(last, close_at(series, dates, Lookback5d)),
              change_1m |-> _pct(last, close_at(series, dates, Lookback1m)),
              change_6m |-> _pct(last, close_at(series, dates, Lookback6m))]

\* the row of session k: both closes as text, the close alone as a number, or
\* closes the provider left out
RowKinds == {"adjusted", "close_only", "unpriced"}

Row(kind, k) ==
    CASE kind = "adjusted" ->
           JDict(("4. close" :> JStr(NatStr(90 + k)))
                 @@ ("5. adjusted close" :> JStr(NatStr(100 + k))))
      [] kind = "close_only" -> JDict("4. close" :> JNum(100 + k))
      [] OTHER -> JDict(("4. close" :> JStr("")) @@ ("5. adjusted close" :> JStr("-")))

\* a series of n sessions, as the provider sends it or the other way round
Series(n, kind, order) ==
    PyDict([i \in 1..n |->
              LET k == IF order = "newest_first" THEN n + 1 - i ELSE i
              IN  <<DateStr(k), Row(kind, k)>>])

SeriesInputs ==
    { Series(n, kind, order) :
        n \in 0..MaxSessions, kind \in RowKinds, order \in {"newest_first", "oldest_first"} }
    \cup { JNull, JList(<<JNum(1)>>) }

InitPrice ==
    /\ Parked
    /\ pin \in [series : SeriesInputs]
    /\ pout = NoneV

ApplyPrice ==
    /\ pout = NoneV
    /\ pout' = summarize_price_performance(pin.series)
    /\ UNCHANGED <<pin, wfVars>>

NextPrice == ApplyPrice

SpecPrice == InitPrice /\ [][NextPrice]_vars

\* the number of entries of the series; none when it is missing or no dict
Entries(series) == IF series.t = "dict" THEN Len(series.items) ELSE 0

\* the most recent date among the keys of the series
MostRecent(series) ==
    CHOOSE d \in {series.items[i][1] : i \in 1..Len(series.items)} :
        \A i \in 1..Len(series.items) : ~StrLess(d, series.items[i][1])

\* C30: summarize_price_performance returns None for the 5-session change
\* when the series has n <= 5 entries, for the 22-session change when
\* n <= 22, and for the 126-session change when n <= 126, while as_of is the
\* most recent date; an empty or missing series gives None for all five.
C30_ShortSeriesGiveNone ==
    pout # NoneV =>
        LET n == Entries(pin.series) IN
        /\ n = 0 => pout = NoPerformance
        /\ n > 0 => pout.as_of = Some(MostRecent(pin.series))
        /\ n <= Lookback5d => pout.change_5d = NoneV
        /\ n <= Lookback1m => pout.change_1m = NoneV
        /\ n <= Lookback6m => pout.change_6m = NoneV

C30_Witness ==
    /\ pout # NoneV
    /\ Entries(pin.series) = Lookback6m
    /\ pin.series.items[1][1] = DateStr(1)
    /\ pout.as_of = Some(DateStr(Lookback6m))
    /\ pout.change_1m # NoneV
    /\ pout.change_6m = NoneV

(***************************************************************************)
(* manager.py: the two prompt parsers on their own                         *)
(***************************************************************************)
\* twelve words that the regex keeps as keywords
manyWords == "alpha beta gamma delta epsilon zeta theta iota kappa lambda sigma omega"

PromptInputs == Messages \cup {"competitor: Acme. " \o manyWords}

ParseJson(chars, d) == CallReturned(Text(chars, JDict(d)))

\* an answer of the text provider with eleven keywords
parseMany ==
    ParseJson("{\"competitor_name\": \"Acme\", \"keywords\": [\"k1\", \"k2\", \"k3\", \"k4\", \"k5\", \"k6\", \"k7\", \"k8\", \"k9\", \"k10\", \"k11\"]}",
              [competitor_name |-> JStr("Acme"),
               keywords |-> JList([i \in 1..11 |-> JStr("k" \o NatStr(i))])])

ParseInputs ==
    ParseReplies
    \cup { CallReturned(Text("   ", NotJson)),
           CallReturned(Text("[]", JList(<<>>))),
           parseMany,
           ParseJson("{\"competitor_name\": \"Acme\"}", [competitor_name |-> JStr("Acme")]),
           ParseJson("{\"competitor_name\": null}", [competitor_name |-> JNull]),
           ParseJson("{\"competitor_name\": \"Acme\", \"ticker\": 7}",
                     [competitor_name |-> JStr("Acme"), ticker |-> JNum(7)]),
           ParseJson("{\"competitor_name\": \"Acme\", \"keywords\": \"GPU\"}",
                     [competitor_name |-> JStr("Acme"), keywords |-> JStr("GPU")]),
           ParseJson("{\"competitor_name\": \"Acme\", \"keywords\": null}",
                     [competitor_name |-> JStr("Acme"), keywords |-> JNull]) }

InitParse ==
    /\ Parked
    /\ pin \in [prompt : PromptInputs, l : {"llm", "none"}, reply : ParseInputs]
    /\ pout = NoneV

ApplyParse ==
    /\ pout = NoneV
    /\ pout' = parse_prompt(pin.prompt, pin.l, pin.reply)
    /\ UNCHANGED <<pin, wfVars>>

NextParse == ApplyParse

SpecParse == InitParse /\ [][NextParse]_vars

\* the call of the text provider came back with a str that is not blank and
\* validates against ManagerParsedPrompt
LlmExtracted(in) ==
    /\ in.l # "none"
    /\ in.reply.call = "returned"
    /\ IsText(in.reply.value)
    /\ Strip(in.reply.value.s) # ""
    /\ ManagerParsedPrompt_model_validate_json(in.reply.value).ok

\* C31: the parsed prompt of a full report comes from the extraction by the
\* text provider, and from the regex exactly when the call fails, returns
\* nothing or no str, or returns what does not validate; parsing never fails
\* the request, and the regex is not run when the extraction validated.
C31_LlmFirstRegexFallback ==
    pout # NoneV =>
        /\ ~IsRaised(pout)
        /\ pout.fallback = ~LlmExtracted(pin)
        /\ LlmExtracted(pin) =>
              pout.parsed = ManagerParsedPrompt_model_validate_json(pin.reply.value).v
        /\ ~LlmExtracted(pin) => pout.parsed = _parse_prompt_with_regex(pin.prompt)

C31_Witness ==
    /\ pout # NoneV
    /\ pin.l = "llm"
    /\ pin.reply = CallReturned(parseBad)
    /\ pout.fallback
    /\ pout.parsed.competitor_name = "Acme"
    /\ pout.parsed.ticker = Some("ACM")

\* C32: the keywords of the parsed prompt of a full report are capped:
\* whichever extraction produced them, there are at most 10.
C32_KeywordsCapped ==
    pout # NoneV => Len(pout.parsed.keywords) <= MaxKeywords


(***************************************************************************)
(* The parsed prompt after it is produced (manager.py, lines 475-561)      *)
(***************************************************************************)
\* the keywords the second pass searches with, as the workflow is meant to
\* build them: the keywords of the prompt, then the four fixed ones
SecondPassQuery ==
    parsed.competitor_name \o " "
    \o Join(parsed.keywords \o <<"CEO", "headcount", "headquarters", "founded">>, " ")

\* C33: once the parsed prompt is produced no step changes it, nor the copy
\* kept in state.parsed_prompt; the second search pass searches with the
\* prompt's keywords followed by CEO, headcount, headquarters, founded (seen
\* in the query a failing first search of that pass reports), and the
\* financial step is handed the prompt's own ticker
C33_ParsedPromptImmutable ==
    [][/\ parsed # NoneV =>
            /\ parsed' = parsed
            /\ state'.parsed_prompt = parsed
            /\ state'.competitor_name = parsed.competitor_name
       /\ (pc = "news2_fetch" /\ qi = 0 /\ pc' = "done") =>
            ret' = Failed(SearchFailed(SecondPassQuery))
       /\ (pc = "fin_start" /\ pc' = "fin_overview" /\ ~fin'.searched) =>
            fin'.resolved = parsed.ticker]_vars

\* the second pass has run on a prompt with keywords and a ticker, and the
\* financial step after it
C33_Witness ==
    /\ Count("news2") = 1
    /\ Count("financial") = 1
    /\ parsed.keywords # <<>>
    /\ ~IsNone(parsed.ticker)
    /\ fin.resolved = parsed.ticker
    /\ state.parsed_prompt = parsed


\* C36: when the second search pass runs, what the news step writes to the
\* state (company_overview, recent_developments, products_pricing and the
\* sources) is the result of the second pass alone: nothing of the first
\* pass is written before it, and nothing of it is kept after it
C36_SecondPassReplacesFirst ==
    [][/\ (pc' \in {"news2_fetch", "news2_kickoff"}) =>
            /\ state'.company_overview = NoneV
            /\ state'.recent_developments = NoneV
            /\ state'.products_pricing = NoneV
            /\ state'.sources = <<>>
       /\ (pc = "news2_kickoff" /\ pc' # "done") =>
            /\ ~IsNone(output'.pydantic)
            /\ state'.company_overview = output'.pydantic.company_overview
            /\ state'.recent_developments = output'.pydantic.recent_developments
            /\ state'.products_pricing = output'.pydantic.products_pricing
            /\ state'.sources = output'.pydantic.sources
       /\ (Count("news2") = 1 /\ state.company_overview # NoneV) =>
            /\ \A f \in NewsFields : state'[f] = state[f]
            /\ SubSeq(state'.sources, 1, Len(state.sources)) = state.sources]_vars

\* the second pass has written a result that differs from the first one in
\* its overview and its sources, and the financial step has run after it
C36_Witness ==
    /\ Count("news2") = 1
    /\ Count("financial") = 1
    /\ state.financial_overview # NoneV
    /\ state.company_overview = nr.company_overview
    /\ state.company_overview # firstNr.company_overview
    /\ firstNr.sources = <<srcB>>
    /\ nr.sources = <<srcA>>
    /\ state.sources = <<srcA>> \o output.pydantic.sources

(***************************************************************************)
(* Termination of a request (manager.py, lines 448-628).  The handler is   *)
(* one sequential program: while the request is not over its next          *)
(* statement runs, every call to a provider or to a Crew returning or      *)
(* failing.  That is weak fairness of the step relation.                   *)
(***************************************************************************)
SpecLive == Spec /\ WF_vars(Next)

\* C38: every request comes to its end, with the rejection, a quick answer,
\* the memo or an error raised, after at most 4 specialist steps and at most
\* 2 calls of the text provider by the workflow itself (gate and parser);
\* the searches and the financial calls it asks for are bounded too (two
\* fetches of at most 9 queries, 4 calls of the financial client)
C38_RequestTerminates ==
    /\ <>(pc = "done" /\ ret # Pending)
    /\ [](/\ Len(Steps) <= 4
          /\ Count("llm_call") <= 2
          /\ Count("search") <= 18
          /\ Count("fin_call") <= 4
          /\ pc = "done" => ret # Pending)

\* a request that ended with the memo after four specialist steps, two
\* calls of the text provider, both search fetches and four financial calls
C38_Witness ==
    /\ pc = "done"
    /\ ret.kind = "returned"
    /\ Steps = <<"news", "news2", "financial", "report">>
    /\ Count("llm_call") = 2
    /\ Count("search") = 18
    /\ Count("fin_call") = 4

(***************************************************************************)
(* _serper_report_sources on its own (news_researcher.py, lines 30-54):    *)
(* the loop over the queries, one query a step, with the results of each   *)
(* search chosen freely.                                                   *)
(***************************************************************************)
srcC == Source("Acme pricing", "https://acme.example/pricing")

\* what serper_search hands back for one query
ResultInputs == {<<>>, <<srcA, srcB>>, <<srcB, srcA2, srcC, srcA2>>}

KeywordInputs == {<<>>, <<"pricing", "AI chips">>}

InitSources ==
    /\ Parked
    /\ pin \in [company_name : {"Acme"}, keywords : KeywordInputs]
    /\ pout = [asked |-> <<>>, discovered |-> <<>>, sources |-> <<>>, result |-> Pending]

\* lines 48-53: one turn of the outer loop; lines 46-47 before the first one
\* and line 54 after the last one
SourcesQuery ==
    /\ pout.result = Pending
    /\ LET queries == report_queries(pin.company_name, pin.keywords)
           q == queries[Len(pout.asked) + 1]
           last == Len(pout.asked) + 1 = Len(queries)
       IN
       \/ pout' = [pout EXCEPT !.asked = Append(@, q),
                               !.result = Failed(Raised("SerperSearchError", q))]
       \/ \E found \in ResultInputs :
            LET sources == AddSources(pout.sources, found) IN
            pout' = [pout EXCEPT
                       !.asked = Append(@, q),
                       !.discovered = @ \o found,
                       !.sources = sources,
                       !.result = IF last THEN [kind |-> "returned", sources |-> sources]
                                  ELSE Pending]
    /\ UNCHANGED <<pin, wfVars>>

NextSources == SourcesQuery

SpecSources == InitSources /\ [][NextSources]_vars

\* the eight queries every fetch asks, in their order
FixedQueries(name) ==
    << name \o " headquarters location corporate HQ",
       name \o " CEO leadership executives founders",
       name \o " employee count headcount employees",
       name \o " company overview founded",
       name \o " product launch pricing plans",
       name \o " partnership acquisition layoff reorg press release",
       name \o " press release newsroom",
       name \o " news 2024 2025" >>

\* where a url was discovered first
FirstAt(url) ==
    Min({j \in 1..Len(pout.discovered) : pout.discovered[j].url = url})



\* C34: the list a report-research fetch returns holds no url twice, holds
\* for every url discovered the source discovered first with it, in the
\* order of discovery; the queries are asked in the fixed order, the
\* keyword query before them when there are keywords
C34_SourcesDeduplicated ==
    (pout # NoneV /\ pout.result # Pending) =>
        /\ pout.asked = SubSeq((IF pin.keywords # <<>>
                                THEN <<pin.company_name \o " " \o Join(pin.keywords, " ")>>
                                ELSE <<>>) \o FixedQueries(pin.company_name),
                               1, Len(pout.asked))
        /\ pout.result.kind = "returned" =>
             LET sources == pout.result.sources IN
             /\ Len(pout.asked) = Len(FixedQueries(pin.company_name))
                                    + (IF pin.keywords # <<>> THEN 1 ELSE 0)
             /\ \A i, j \in 1..Len(sources) : sources[i].url = sources[j].url => i = j
             /\ \A j \in 1..Len(pout.discovered) :
                  \E i \in 1..Len(sources) : sources[i].url = pout.discovered[j].url
             /\ \A i \in 1..Len(sources) :
                  sources[i] = pout.discovered[FirstAt(sources[i].url)]
             /\ \A i, j \in 1..Len(sources) :
                  i < j => FirstAt(sources[i].url) < FirstAt(sources[j].url)

\* a fetch with keywords has returned; a url came back from several queries
\* and twice from one query, under different titles
C34_Witness ==
    /\ pout # NoneV /\ pout.result # Pending
    /\ pout.result.kind = "returned"
    /\ pin.keywords # <<>>
    /\ pout.result.sources = <<srcB, srcA2, srcC>>
    /\ \E j \in 1..Len(pout.discovered) : pout.discovered[j] = srcA


(***************************************************************************)
(* financial_analyst.py: _fetch_financials, line by line, with the data    *)
(* of the provider chosen freely (lines 79-163), and the helpers of        *)
(* alpha_vantage.py it formats with.  The amounts of the model are whole   *)
(* numbers below 2^31 that do not sit half way between two printed values. *)
(***************************************************************************)
Thousand == 1000

Million == 1000000

Billion == 1000000000

\* float(v) at lines 112 and 126, for a number or a string of digits
float_of(v) ==
    IF v.t = "num" THEN Ok(v.n)
    ELSE IF v.t # "str" THEN Bad
    ELSE LET s == Strip(v.s) IN
         IF s # "" /\ \A i \in 1..Len(s) : Char(s, i) \in CharsOf(Digits)
         THEN Ok(NatOf(s))
         ELSE Bad

\* f"{n / unit:.2f}" for a unit of a thousand or more
TwoPlaces(n, unit) ==
    LET h == (n + unit \div 200) \div (unit \div 100)
    IN  NatStr(h \div 100) \o "." \o NatStr((h % 100) \div 10) \o NatStr(h % 10)

\* f"{g:.1f}" of the fraction g
OnePlace(g) ==
    LET size == IF g.num < 0 THEN 0 - g.num ELSE g.num
        t == (size * 10 + g.den \div 2) \div g.den
    IN  (IF g.num < 0 THEN "-" ELSE "") \o NatStr(t \div 10) \o "." \o NatStr(t % 10)

\* round(p, 2) of the fraction p, in hundredths
Round2(p) ==
    LET size == IF p.num < 0 THEN 0 - p.num ELSE p.num
        h == (size * 200 + p.den) \div (2 * p.den)
    IN  [num |-> IF p.num < 0 THEN 0 - h ELSE h, den |-> 100]

\* alpha_vantage.py, lines 92-104; an amount of 1e12 or more is beyond the
\* numbers of the model, so that the first branch taken here is the one of 1e9
_fmt_money(v) ==
    IF IsNone(v) THEN "unknown"
    ELSE IF v.some >= Billion THEN "$" \o TwoPlaces(v.some, Billion) \o "B"
    ELSE IF v.some >= Million THEN "$" \o TwoPlaces(v.some, Million) \o "M"
    ELSE IF v.some >= Thousand THEN "$" \o TwoPlaces(v.some, Thousand) \o "K"
    ELSE "$" \o NatStr(v.some)

\* alpha_vantage.py, lines 137-150
summarize_revenue_growth(income_statement) ==
    LET got == DictGet(income_statement, "annualReports")
        annual == IF Truthy(got) THEN got ELSE JList(<<>>)
    IN  IF annual.t # "list" THEN [revenue |-> "unknown", growth |-> "unknown"]
        ELSE IF Len(annual.l) < 2 THEN [revenue |-> "unknown", growth |-> "unknown"]
        ELSE LET r0 == _safe_float(DictGet(annual.l[1], "totalRevenue"))
                 r1 == _safe_float(DictGet(annual.l[2], "totalRevenue"))
                 g == _pct(r0, r1)
             IN  [revenue |-> _fmt_money(r0),
                  growth |-> IF IsNone(g) THEN "unknown" ELSE OnePlace(g.some) \o "% YoY"]

\* lines 88-99: the record of a company no ticker is found for
UnresolvedOverview ==
    [ticker |-> "unknown", market_cap |-> "unknown", revenue |-> "unknown",
     revenue_growth |-> "unknown", profitability |-> "unknown",
     burn_rate |-> "unknown", funding_and_valuation |-> "unknown",
     price_performance |-> NoneV,
     notes |-> <<"Ticker not found via Alpha Vantage SYMBOL_SEARCH; "
                 \o "treating as private/unknown market data.">>]

\* lines 131-144; ts is the outcome of client.time_series_daily_adjusted, its
\* value the "Time Series (Daily)" entry of the payload
price_performance_of(ts) ==
    IF ts.call = "raised" THEN NoneV
    ELSE LET p == summarize_price_performance(ts.value)
             rounded(c) == IF IsNone(c) THEN NoneV ELSE Some(Round2(c.some))
         IN  IF IsNone(p.as_of) THEN NoneV
             ELSE IF p.as_of.some = "" THEN NoneV
             ELSE [as_of |-> p.as_of.some, last_close |-> p.last,
                   change_5d_pct |-> rounded(p.change_5d),
                   change_1m_pct |-> rounded(p.change_1m),
                   change_6m_pct |-> rounded(p.change_6m)]

\* lines 123-128
mcap_str_of(market_cap) ==
    IF ~Truthy(market_cap) THEN "unknown"
    ELSE IF float_of(market_cap).ok
    THEN "$" \o TwoPlaces(float_of(market_cap).v, Billion) \o "B"
    ELSE PyStr(market_cap)

\* lines 105-160: the record built from the three payloads
financial_overview_of(resolved, overview, income, ts) ==
    LET market_cap == DictGet(overview, "MarketCapitalization")
        ttm == DictGet(overview, "RevenueTTM")
        revenue_ttm == IF Truthy(ttm) THEN ttm ELSE DictGet(overview, "RevenuePerShareTTM")
        summary == summarize_revenue_growth(income)
        revenue == IF summary.revenue = "unknown" /\ Truthy(revenue_ttm)
                   THEN IF float_of(revenue_ttm).ok
                        THEN "$" \o TwoPlaces(float_of(revenue_ttm).v, Billion) \o "B (TTM)"
                        ELSE PyStr(revenue_ttm)
                   ELSE summary.revenue
        profit_margin == DictGet(overview, "ProfitMargin")
        op_margin == DictGet(overview, "OperatingMarginTTM")
        shown(v) == IF Truthy(v) THEN PyStr(v) ELSE "unknown"
        profitability == IF Truthy(profit_margin) \/ Truthy(op_margin)
                         THEN "profit margin: " \o shown(profit_margin)
                              \o "; operating margin: " \o shown(op_margin)
                         ELSE "unknown"
        mcap_str == mcap_str_of(market_cap)
    IN  [ticker |-> resolved, market_cap |-> mcap_str, revenue |-> revenue,
         revenue_growth |-> summary.growth, profitability |-> profitability,
         burn_rate |-> "unknown",
         funding_and_valuation |->
             IF mcap_str # "unknown"
             THEN "public markets (market cap " \o mcap_str \o ")"
             ELSE "unknown",
         price_performance |-> price_performance_of(ts),
         notes |-> <<"Alpha Vantage provides limited fundamentals for some tickers; "
                     \o "unknown fields reflect missing data.">>]


\* one key of a payload, or none when the provider leaves it out
Entry(key, v) == IF IsNone(v) THEN [k \in {} |-> JNull] ELSE key :> v

OverviewOf(mcap, ttm, per_share, margin, op_margin) ==
    JDict(("Symbol" :> JStr("ACM"))
          @@ Entry("MarketCapitalization", mcap) @@ Entry("RevenueTTM", ttm)
          @@ Entry("RevenuePerShareTTM", per_share) @@ Entry("ProfitMargin", margin)
          @@ Entry("OperatingMarginTTM", op_margin))

\* the ways the provider writes a figure it does not have
NullMarkers == {"", "None", "null", "-"}

OverviewInputs ==
    { OverviewOf(m, NoneV, NoneV, NoneV, NoneV) :
        m \in {NoneV, JNull, JStr(""), JStr("None"), JStr("-"), JStr("1500000000")} }
    \cup { OverviewOf(NoneV, t, p, NoneV, NoneV) :
             t \in {NoneV, JStr("None"), JStr("1200000000")}, p \in {NoneV, JStr("45")} }
    \cup { OverviewOf(NoneV, NoneV, NoneV, pm, om) :
             pm \in {NoneV, JStr("None"), JStr("0.25")}, om \in {NoneV, JStr("0.31")} }

Report(revenue) == JDict(Entry("totalRevenue", revenue))

IncomeInputs ==
    { JDict(Entry("annualReports", NoneV)), JDict(Entry("annualReports", JNull)),
      JDict(Entry("annualReports", JList(<<Report(JStr("2500000"))>>))) }
    \cup { JDict(Entry("annualReports", JList(<<Report(a), Report(b)>>))) :
             a \in {NoneV, JStr("None"), JStr("2500000"), JStr("1500")},
             b \in {JStr("2000000"), JStr("0"), JStr("-")} }

SeriesOutcomes ==
    { CallRaised, CallReturned(JNull),
      CallReturned(Series(2, "adjusted", "newest_first")),
      CallReturned(Series(6, "close_only", "oldest_first")) }

\* bestMatches of the symbol search; the last one names no symbol
FetchMatches == SymbolMatches \cup {<<Match("", "Equity", "United States", 5)>>}

TickerInputs == {NoneV, Some(""), Some("acm")}

FetchReturned(fo) == [kind |-> "returned", financial_overview |-> fo, sources |-> <<>>]

InitFetch ==
    /\ Parked
    /\ pin \in [competitor_name : {"Acme"}, ticker : TickerInputs, api_key : BOOLEAN]
    /\ pout = [stage |-> "resolve", calls |-> <<>>, failed |-> NoneV, resolved |-> NoneV,
               overview |-> NoneV, income |-> NoneV, series |-> NoneV,
               result |-> Pending, executed |-> FALSE]

\* a call of the client fails after its retries
FetchRaises(fn) ==
    pout' = [pout EXCEPT !.stage = "done", !.calls = Append(@, fn), !.failed = Some(fn),
                         !.result = Failed(FetchFailed)]

\* lines 84-100
FetchResolve ==
    /\ pout.stage = "resolve"
    /\ IF ~pin.api_key
       THEN pout' = [pout EXCEPT
                       !.stage = "done",
                       !.result = Failed(Raised("AlphaVantageError",
                                                "ALPHAVANTAGE_API_KEY is required"))]
       ELSE IF ~IsNone(pin.ticker) /\ pin.ticker.some # ""
       THEN pout' = [pout EXCEPT !.stage = "overview", !.resolved = pin.ticker]
       ELSE \/ FetchRaises("SYMBOL_SEARCH")
            \/ \E matches \in FetchMatches :
                 LET resolved == _resolve_ticker(matches) IN
                 pout' = [pout EXCEPT
                            !.calls = Append(@, "SYMBOL_SEARCH"),
                            !.resolved = resolved,
                            !.stage = IF IsNone(resolved) THEN "task" ELSE "overview",
                            !.result = IF IsNone(resolved)
                                       THEN FetchReturned(UnresolvedOverview)
                                       ELSE Pending]
    /\ UNCHANGED <<pin, wfVars>>

\* line 102
FetchOverview ==
    /\ pout.stage = "overview"
    /\ \/ FetchRaises("OVERVIEW")
       \/ \E overview \in OverviewInputs :
            pout' = [pout EXCEPT !.stage = "income", !.calls = Append(@, "OVERVIEW"),
                                 !.overview = overview]
    /\ UNCHANGED <<pin, wfVars>>

\* line 103
FetchIncome ==
    /\ pout.stage = "income"
    /\ \/ FetchRaises("INCOME_STATEMENT")
       \/ \E income \in IncomeInputs :
            pout' = [pout EXCEPT !.stage = "series",
                                 !.calls = Append(@, "INCOME_STATEMENT"),
                                 !.income = income]
    /\ UNCHANGED <<pin, wfVars>>

\* a fetch that lets the failure of the daily series through
FetchSeriesUncaught ==
    /\ pout.stage = "series"
    /\ \E ts \in SeriesOutcomes :
         IF ts.call = "raised" THEN FetchRaises("TIME_SERIES_DAILY_ADJUSTED")
         ELSE pout' = [pout EXCEPT
                         !.stage = "task",
                         !.calls = Append(@, "TIME_SERIES_DAILY_ADJUSTED"),
                         !.series = ts,
                         !.result = FetchReturned(financial_overview_of(
                                        pout.resolved.some, pout.overview, pout.income, ts))]
    /\ UNCHANGED <<pin, wfVars>>

\* lines 105-163
FetchSeries ==
    /\ pout.stage = "series"
    /\ \E ts \in SeriesOutcomes :
         pout' = [pout EXCEPT
                    !.stage = "task",
                    !.calls = Append(@, "TIME_SERIES_DAILY_ADJUSTED"),
                    !.failed = IF ts.call = "raised" THEN Some("TIME_SERIES_DAILY_ADJUSTED")
                               ELSE @,
                    !.series = ts,
                    !.result = FetchReturned(financial_overview_of(
                                   pout.resolved.some, pout.overview, pout.income, ts))]
    /\ UNCHANGED <<pin, wfVars>>

\* manager.py, lines 557-568: with the data fetched the task is built and
\* the Financial Analysis step executed
FinancialStep ==
    /\ pout.stage = "task"
    /\ pout' = [pout EXCEPT !.stage = "done", !.executed = TRUE]
    /\ UNCHANGED <<pin, wfVars>>

NextFetch == FetchResolve \/ FetchOverview \/ FetchIncome \/ FetchSeries \/ FinancialStep

SpecFetch == InitFetch /\ [][NextFetch]_vars

TextFields(fo) ==
    <<fo.ticker, fo.market_cap, fo.revenue, fo.revenue_growth, fo.profitability,
      fo.burn_rate, fo.funding_and_valuation>>

\* the fetch has handed back its record
Fetched == pout # NoneV /\ pout.result # Pending /\ pout.result.kind = "returned"

\* C35: in every FinancialOverview the fetch returns, no string field is
\* empty or a null marker of the provider, and the market cap and the
\* funding line read "unknown" when the provider's MarketCapitalization is
\* absent or is no number
C35_UnknownSentinel ==
    Fetched =>
        LET fo == pout.result.financial_overview IN
        /\ \A i \in 1..7 : TextFields(fo)[i] \notin NullMarkers
        /\ (pout.overview # NoneV
            /\ ~float_of(DictGet(pout.overview, "MarketCapitalization")).ok) =>
              /\ fo.market_cap = "unknown"
              /\ fo.funding_and_valuation = "unknown"

\* C37: a failing daily series leaves a record without price_performance
\* and the request alive; a failing overview or income statement raises
\* AlphaVantageError and the Financial Analysis step is not executed; with
\* a ticker in the prompt there is no symbol search; without one, and none
\* found, the symbol search is the only call and every field is "unknown"
C37_FetchFailures ==
    pout # NoneV =>
        /\ (pout.failed = Some("TIME_SERIES_DAILY_ADJUSTED")) =>
              /\ Fetched
              /\ pout.result.financial_overview.price_performance = NoneV
              /\ pout.result.financial_overview =
                    financial_overview_of(pout.resolved.some, pout.overview, pout.income,
                                          CallReturned(JNull))
        /\ (pout.failed \in {Some("OVERVIEW"), Some("INCOME_STATEMENT")}) =>
              /\ pout.result = Failed(FetchFailed)
              /\ pout.result.exc = "AlphaVantageError"
              /\ ~pout.executed
        /\ (~IsNone(pin.ticker) /\ pin.ticker.some # "") =>
              \A i \in 1..Len(pout.calls) : pout.calls[i] # "SYMBOL_SEARCH"
        /\ (Fetched /\ IsNone(pout.resolved)) =>
              /\ pout.calls = <<"SYMBOL_SEARCH">>
              /\ \A i \in 1..7 :
                    TextFields(pout.result.financial_overview)[i] = "unknown"

\* the daily series failed after an overview and an income statement with
\* figures, and the step was executed on the record
C37_Witness ==
    /\ pout # NoneV
    /\ pout.failed = Some("TIME_SERIES_DAILY_ADJUSTED")
    /\ pout.executed
    /\ pout.result.financial_overview.market_cap = "$1.50B"
    /\ pout.result.financial_overview.revenue_growth = "25.0% YoY"


\* the sleeps the retries of serper_search are meant to make after a given
\* number of failed attempts: one per attempt that is followed by another
ExpectedSleeps(failures) ==
    [k \in 1..(IF failures < search_max_retries THEN failures ELSE search_max_retries)
        |-> search_backoff(k - 1)]

\* C39: between attempt k and attempt k + 1 serper_search sleeps exactly
\* once, for 1.5 * (k + 1) seconds, after a 429 as after a transport failure,
\* and it does not sleep after its last attempt
C39_OneSleepPerRetry == pout.slept = ExpectedSleeps(pout.attempt)

====
